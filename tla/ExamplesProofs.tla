--------------------------- MODULE ExamplesProofs ---------------------------
(***************************************************************************)
(* Proofs about the two examples: WebServer, for any directory tree and    *)
(* any requests, and the chat with its codec, for any users, messages and  *)
(* chunks.                                                                 *)
(***************************************************************************)
EXTENDS WebServer, ChatServer, SequenceTheorems, WellFoundedInduction, TLAPS

-----------------------------------------------------------------------------
(* Induction and recursion.  The library states both for an operator; here *)
(* they are stated for sets and functions, from the well-foundedness of <. *)

\* A nonempty set of natural numbers has a least element.
LEMMA LeastOf ==
    ASSUME NEW T, T \subseteq Nat, T # {}
    PROVE  \E x \in T : \A y \in T : x <= y
<1> DEFINE R == {ss \in Nat \X Nat : ss[1] < ss[2]}
<1>1. IsWellFoundedOn(R, Nat)
  BY NatLessThanWellFounded, Zenon DEF OpToRel
<1>2. \A x, y \in Nat : <<y, x>> \in R <=> y < x
  OBVIOUS
<1> HIDE DEF R
<1>3. PICK x \in T : \A y \in T : ~ (<<y, x>> \in R)
  BY <1>1, WFMin
<1>4. ASSUME NEW y \in T PROVE x <= y
  <2>1. x \in Nat /\ y \in Nat
    OBVIOUS
  <2>2. ~ (<<y, x>> \in R)
    BY <1>3
  <2>3. ~ (y < x)
    BY <1>2, <2>1, <2>2
  <2> QED
    BY <2>1, <2>3
<1> QED
  BY <1>4

\* Induction, for a set of numbers.
LEMMA Induction ==
    ASSUME NEW S, 0 \in S, \A n \in Nat : n \in S => n + 1 \in S
    PROVE  Nat \subseteq S
<1> SUFFICES ASSUME Nat \ S # {} PROVE FALSE
  OBVIOUS
<1>1. PICK x \in Nat \ S : \A y \in Nat \ S : x <= y
  BY LeastOf
<1>2. x # 0
  BY <1>1
<1>3. x - 1 \in Nat /\ x - 1 \in S
  BY <1>1, <1>2
<1> QED
  BY <1>1, <1>3

(***************************************************************************)
(* A recursive definition f[d] = H[d, f] over the set D has a solution if  *)
(* H looks only at the values of f for arguments of a smaller rank.        *)
(***************************************************************************)
Recursion(D, V, rank, N, H) ==
    /\ V # {}
    /\ N \in Nat
    /\ rank \in [D -> 0..N]
    /\ H \in [D \X [D -> V] -> V]
    /\ \A d \in D : \A f, g \in [D -> V] :
          (\A e \in D : rank[e] < rank[d] => f[e] = g[e]) => H[<<d, f>>] = H[<<d, g>>]

\* It is solved for the arguments of rank below n, for every n in turn.
LEMMA RecursiveFunction ==
    ASSUME NEW D, NEW V, NEW rank, NEW N, NEW H, Recursion(D, V, rank, N, H)
    PROVE  \E f \in [D -> V] : \A d \in D : f[d] = H[<<d, f>>]
<1> USE DEF Recursion
<1> DEFINE Solves(f, n) == \A d \in D : rank[d] < n => f[d] = H[<<d, f>>]
           S == {n \in Nat : \E f \in [D -> V] : Solves(f, n)}
<1>1. 0 \in S
  <2>1. PICK v \in V : TRUE
    OBVIOUS
  <2>2. [d \in D |-> v] \in [D -> V]
    OBVIOUS
  <2>3. Solves([d \in D |-> v], 0)
    OBVIOUS
  <2> QED
    BY <2>2, <2>3
<1>2. ASSUME NEW n \in Nat, n \in S PROVE n + 1 \in S
  <2>1. PICK f \in [D -> V] : Solves(f, n)
    BY <1>2
  <2> DEFINE g == [d \in D |-> IF rank[d] = n THEN H[<<d, f>>] ELSE f[d]]
  <2>2. g \in [D -> V]
    OBVIOUS
  <2>3. ASSUME NEW d \in D, rank[d] < n + 1 PROVE g[d] = H[<<d, g>>]
    <3>1. \A e \in D : rank[e] < rank[d] => f[e] = g[e]
      BY <2>3
    <3>2. H[<<d, f>>] = H[<<d, g>>]
      <4> HIDE DEF g
      <4> QED BY <3>1, <2>2
    <3>3. g[d] = H[<<d, f>>]
      BY <2>1, <2>3
    <3> QED
      BY <3>2, <3>3
  <2>4. Solves(g, n + 1)
    BY <2>3
  <2> HIDE DEF g
  <2> QED
    BY <2>2, <2>4
<1>3. N + 1 \in S
  <2> HIDE DEF S
  <2> QED BY <1>1, <1>2, Induction
<1>4. PICK f \in [D -> V] : Solves(f, N + 1)
  BY <1>3
<1>5. \A d \in D : rank[d] < N + 1
  OBVIOUS
<1> QED
  BY <1>4, <1>5

-----------------------------------------------------------------------------
(* Sequences of sequences.                                                 *)

\* One step of FlattenSeq.
FlattenAt(seqs, f, i) == IF i = 1 THEN seqs[i] ELSE f[i - 1] \o seqs[i]

\* FlattenSeq is the result of a function that satisfies the steps.
LEMMA FlattenIs ==
    ASSUME NEW S, NEW seqs \in Seq(Seq(S))
    PROVE  \E f : /\ Len(seqs) # 0 => FlattenSeq(seqs) = f[Len(seqs)]
                  /\ \A i \in 1..Len(seqs) :
                        f[i] \in Seq(S) /\ f[i] = FlattenAt(seqs, f, i)
<1> DEFINE N == Len(seqs)
           D == 1..N
           V == Seq(S)
           rank == [i \in D |-> i]
           H == [x \in D \X [D -> V] |-> FlattenAt(seqs, x[2], x[1])]
           F(h) == [i \in D |-> FlattenAt(seqs, h, i)]
           g == CHOOSE h : h = F(h)
<1>0. N \in Nat /\ \A i \in D : seqs[i] \in V
  OBVIOUS
<1>1. ASSUME NEW i \in D, NEW f, \A j \in D : j < i => f[j] \in V
      PROVE  FlattenAt(seqs, f, i) \in V
  <2>1. CASE i = 1
    BY <1>0, <2>1 DEF FlattenAt
  <2>2. CASE i # 1
    <3>1. i - 1 \in D /\ i - 1 < i
      BY <1>0, <2>2
    <3>2. f[i - 1] \in V /\ seqs[i] \in V
      BY <1>0, <1>1, <3>1
    <3>3. f[i - 1] \o seqs[i] \in V
      BY <3>2, ConcatProperties
    <3> QED
      BY <2>2, <3>3 DEF FlattenAt
  <2> QED
    BY <2>1, <2>2
<1>2. H \in [D \X [D -> V] -> V]
  <2>1. ASSUME NEW i \in D, NEW f \in [D -> V] PROVE FlattenAt(seqs, f, i) \in V
    BY <1>1
  <2> HIDE DEF D, V
  <2> QED
    BY <2>1
<1>3. ASSUME NEW i \in D, NEW f \in [D -> V], NEW h \in [D -> V],
             \A j \in D : rank[j] < rank[i] => f[j] = h[j]
      PROVE  H[<<i, f>>] = H[<<i, h>>]
  <2>1. CASE i = 1
    <3>1. FlattenAt(seqs, f, i) = FlattenAt(seqs, h, i)
      BY <2>1 DEF FlattenAt
    <3> HIDE DEF D, V
    <3> QED
      BY <3>1
  <2>2. CASE i # 1
    <3>1. i - 1 \in D /\ rank[i - 1] < rank[i]
      BY <1>0, <2>2
    <3>2. FlattenAt(seqs, f, i) = FlattenAt(seqs, h, i)
      BY <1>3, <3>1 DEF FlattenAt
    <3> HIDE DEF D, V
    <3> QED
      BY <3>2
  <2> QED
    BY <2>1, <2>2
<1>4. \E f \in [D -> V] : \A i \in D : f[i] = H[<<i, f>>]
  <2>1. <<>> \in V
    OBVIOUS
  <2>2. rank \in [D -> 0..N]
    OBVIOUS
  <2> HIDE DEF D, V, rank, H, N
  <2>3. Recursion(D, V, rank, N, H)
    BY <1>0, <1>2, <1>3, <2>1, <2>2 DEF Recursion
  <2> QED
    BY <2>3, RecursiveFunction
<1>5. g = F(g)
  <2>1. PICK f \in [D -> V] : \A i \in D : f[i] = FlattenAt(seqs, f, i)
    <3> HIDE DEF D, V
    <3> QED
      BY <1>4
  <2>2. f = F(f)
    <3> HIDE DEF D, V
    <3> QED
      BY <2>1
  <2> HIDE DEF F
  <2> QED
    BY <2>2
<1>6. N # 0 => FlattenSeq(seqs) = g[N]
  BY Zenon DEF FlattenSeq, FlattenAt
<1> HIDE DEF g
<1>7. \A i \in D : g[i] = FlattenAt(seqs, g, i)
  BY <1>5
<1>8. \A i \in D : g[i] \in V
  <2> DEFINE T == {i \in D : g[i] \notin V}
  <2>1. SUFFICES ASSUME T # {} PROVE FALSE
    OBVIOUS
  <2>2. PICK i \in T : \A j \in T : i <= j
    <3>1. T \subseteq Nat
      OBVIOUS
    <3> QED
      BY <2>1, <3>1, LeastOf
  <2>3. \A j \in D : j < i => g[j] \in V
    <3>1. \A j \in T : i <= j
      BY <2>2
    <3> QED
      BY <2>2, <3>1
  <2> QED
    BY <1>1, <1>7, <2>2, <2>3
<1> QED
  BY <1>6, <1>7, <1>8

\* What is flattened is a sequence.
LEMMA FlattenType ==
    ASSUME NEW S, NEW seqs \in Seq(Seq(S))
    PROVE  FlattenSeq(seqs) \in Seq(S) /\ FlattenSeq(<<>>) = <<>>
<1>1. FlattenSeq(<<>>) = <<>>
  BY DEF FlattenSeq
<1>2. CASE Len(seqs) = 0
  <2>1. seqs = <<>>
    BY <1>2
  <2>2. <<>> \in Seq(S)
    OBVIOUS
  <2> QED
    BY <1>1, <2>1, <2>2
<1>3. CASE Len(seqs) # 0
  <2>1. Len(seqs) \in 1..Len(seqs)
    BY <1>3
  <2> QED
    BY <1>1, <1>3, <2>1, FlattenIs
<1> QED
  BY <1>2, <1>3

\* A last sequence comes behind the others, ...
LEMMA FlattenAppend ==
    ASSUME NEW S, NEW seqs \in Seq(Seq(S)), NEW t \in Seq(S)
    PROVE  FlattenSeq(Append(seqs, t)) = FlattenSeq(seqs) \o t
<1> DEFINE N == Len(seqs)
           long == Append(seqs, t)
<1>1. /\ N \in Nat /\ long \in Seq(Seq(S)) /\ Len(long) = N + 1 /\ long[N + 1] = t
      /\ \A i \in 1..N : long[i] = seqs[i]
  OBVIOUS
<1> HIDE DEF long
<1>2. PICK f : /\ N # 0 => FlattenSeq(seqs) = f[N]
               /\ \A i \in 1..N : f[i] \in Seq(S) /\ f[i] = FlattenAt(seqs, f, i)
  BY FlattenIs, Zenon
<1>3. PICK g : /\ Len(long) # 0 => FlattenSeq(long) = g[Len(long)]
               /\ \A i \in 1..Len(long) : g[i] \in Seq(S) /\ g[i] = FlattenAt(long, g, i)
  BY <1>1, FlattenIs, Zenon
<1>4. \A i \in 1..(N + 1) : g[i] = FlattenAt(long, g, i)
  BY <1>1, <1>3
<1>5. FlattenSeq(long) = g[N + 1]
  BY <1>1, <1>3
<1>6. CASE N = 0
  <2>1. seqs = <<>>
    BY <1>6
  <2>2. g[N + 1] = t
    BY <1>1, <1>4, <1>6 DEF FlattenAt
  <2>3. FlattenSeq(seqs) \o t = t
    BY <2>1, FlattenType, ConcatEmptySeq
  <2> QED
    BY <1>5, <2>2, <2>3 DEF long
<1>7. CASE N # 0
  <2>1. \A i \in 1..N : g[i] = f[i]
    <3> DEFINE T == {i \in 1..N : g[i] # f[i]}
    <3>1. SUFFICES ASSUME T # {} PROVE FALSE
      OBVIOUS
    <3>2. PICK i \in T : \A j \in T : i <= j
      <4>1. T \subseteq Nat
        OBVIOUS
      <4> QED
        BY <3>1, <4>1, LeastOf
    <3>3. i \in 1..N /\ i \in 1..(N + 1) /\ g[i] # f[i]
      BY <1>1, <3>2
    <3>4. CASE i = 1
      BY <1>1, <1>2, <1>4, <3>3, <3>4 DEF FlattenAt
    <3>5. CASE i # 1
      <4>1. i - 1 \in 1..N /\ i - 1 < i
        BY <1>1, <3>3, <3>5
      <4>2. g[i - 1] = f[i - 1]
        <5>1. i - 1 \notin T
          <6> HIDE DEF T
          <6> QED
            BY <3>2, <3>3, <4>1
        <5> QED
          BY <4>1, <5>1
      <4>3. g[i] = g[i - 1] \o seqs[i]
        BY <1>1, <1>4, <3>3, <3>5 DEF FlattenAt
      <4>4. f[i] = f[i - 1] \o seqs[i]
        BY <1>2, <3>3, <3>5 DEF FlattenAt
      <4> QED
        BY <3>3, <4>2, <4>3, <4>4
    <3> QED
      BY <3>4, <3>5
  <2>2. N \in 1..N /\ N + 1 \in 1..(N + 1) /\ (N + 1) - 1 = N /\ N + 1 # 1
    BY <1>1, <1>7
  <2>3. g[N + 1] = g[N] \o t
    BY <1>1, <1>4, <2>2 DEF FlattenAt
  <2> QED
    BY <1>2, <1>5, <1>7, <2>1, <2>2, <2>3 DEF long
<1> QED
  BY <1>6, <1>7

\* ... and what two halves make comes one behind the other.
LEMMA FlattenConcat ==
    ASSUME NEW S, NEW s \in Seq(Seq(S)), NEW t \in Seq(Seq(S))
    PROVE  FlattenSeq(s \o t) = FlattenSeq(s) \o FlattenSeq(t)
<1> DEFINE Q(n) == \A u \in Seq(Seq(S)) :
                      Len(u) = n => FlattenSeq(s \o u) = FlattenSeq(s) \o FlattenSeq(u)
           T == {n \in Nat : Q(n)}
<1>a. \A u \in Seq(Seq(S)) : FlattenSeq(u) \in Seq(S) /\ FlattenSeq(<<>>) = <<>>
  BY FlattenType
<1>1. Q(0)
  <2>1. ASSUME NEW u \in Seq(Seq(S)), Len(u) = 0
        PROVE  FlattenSeq(s \o u) = FlattenSeq(s) \o FlattenSeq(u)
    <3>1. u = <<>>
      BY <2>1
    <3>2. s \o u = s
      BY <3>1, ConcatEmptySeq
    <3>3. FlattenSeq(s) \o <<>> = FlattenSeq(s)
      BY <1>a, ConcatEmptySeq
    <3> QED
      BY <1>a, <3>1, <3>2, <3>3, Zenon
  <2> QED
    BY <2>1
<1>2. ASSUME NEW n \in Nat, Q(n) PROVE Q(n + 1)
  <2>1. ASSUME NEW u \in Seq(Seq(S)), Len(u) = n + 1
        PROVE  FlattenSeq(s \o u) = FlattenSeq(s) \o FlattenSeq(u)
    <3> DEFINE v == SubSeq(u, 1, n)
               x == u[n + 1]
    <3>1. v \in Seq(Seq(S)) /\ Len(v) = n /\ x \in Seq(S)
      <4>1. n \in 0..Len(u) /\ n + 1 \in 1..Len(u)
        BY <2>1
      <4> QED
        BY <4>1
    <3>2. u = Append(v, x)
      BY <2>1, <3>1
    <3> HIDE DEF v, x
    <3>3. s \o u = Append(s \o v, x) /\ s \o v \in Seq(Seq(S))
      BY <3>1, <3>2
    <3>4. FlattenSeq(s \o v) = FlattenSeq(s) \o FlattenSeq(v)
      BY <1>2, <3>1
    <3>5. FlattenSeq(Append(s \o v, x)) = FlattenSeq(s \o v) \o x
      BY <3>1, <3>3, FlattenAppend
    <3>6. FlattenSeq(u) = FlattenSeq(v) \o x
      BY <3>1, <3>2, FlattenAppend
    <3>7. \A p, q, r \in Seq(S) : (p \o q) \o r = p \o (q \o r)
      BY ConcatAssociative
    <3>8. (FlattenSeq(s) \o FlattenSeq(v)) \o x = FlattenSeq(s) \o (FlattenSeq(v) \o x)
      BY <1>a, <3>1, <3>7, Zenon
    <3> QED
      BY <3>3, <3>4, <3>5, <3>6, <3>8, Zenon
  <2> QED
    BY <2>1
<1>3. Nat \subseteq T
  <2> HIDE DEF Q
  <2>1. 0 \in T /\ \A n \in Nat : n \in T => n + 1 \in T
    BY <1>1, <1>2
  <2> HIDE DEF T
  <2> QED
    BY <2>1, Induction
<1>4. Len(t) \in Nat
  OBVIOUS
<1> QED
  BY <1>3, <1>4

-----------------------------------------------------------------------------
(* WebServer: open files.                                                  *)

Request == [path : Paths, close : BOOLEAN]

TypeOK ==
    /\ requests \in Seq(Request)
    /\ next \in Nat \ {0}
    /\ state_ \in {"kConnected", "kDisconnecting", "kDisconnected"}
    /\ left \in Nat

\* The connection is shut down only by a response that asked for it.
ShutdownInv ==
    state_ = "kDisconnecting" => \E j \in 1..(next - 1) : requests[j].close

FilesInv == TypeOK /\ ShutdownInv /\ FilesClosed

-----------------------------------------------------------------------------
\* The file of a path has a size.
LEMMA FileOf ==
    ASSUME NEW path \in Paths, Resolve(path) # <<>>
    PROVE  Resolve(path)[1] \in Paths /\ Stat[Resolve(path)[1]].size \in Nat
<1>1. CASE ~Stat[path].dir
  <2>1. Resolve(path) = <<path>>
    BY <1>1 DEF Resolve
  <2> QED
    BY <2>1, WebAssumption
<1>2. CASE Stat[path].dir
  <2> DEFINE indexes == Indexes[path]
             first == {i \in 1..Len(indexes) : /\ Stat[indexes[i]].exists
                                               /\ \A j \in 1..(i - 1) : ~Stat[indexes[j]].exists}
             k == CHOOSE i \in first : TRUE
  <2>1. Resolve(path) = <<indexes[k]>> /\ first # {}
    BY <1>2 DEF Resolve
  <2>2. indexes \in Seq(Paths)
    BY WebAssumption
  <2>3. k \in first
    BY <2>1
  <2>4. k \in 1..Len(indexes)
    BY <2>3
  <2> HIDE DEF indexes, k
  <2>5. indexes[k] \in Paths
    BY <2>2, <2>4
  <2> QED
    BY <2>1, <2>5, WebAssumption
<1> QED
  BY <1>1, <1>2

\* A response without a file, or with an empty one, is its header.
LEMMA EmptyResponse ==
    ASSUME NEW i, LET file == Resolve(requests[i].path)
                  IN  file = <<>> \/ Stat[file[1]].size = 0
    PROVE  Len(Response(i)) = 1
<1> DEFINE none == [k \in 1..0 |-> <<i, "file">>]
<1>1. Response(i) = Header(i) \o none
  BY DEF Response
<1>2. none = <<>>
  OBVIOUS
<1> HIDE DEF none
<1>3. Header(i) \o <<>> = Header(i) /\ Len(Header(i)) = 1
  BY DEF Header
<1> QED
  BY <1>1, <1>2, <1>3

\* What FilesClosed allows file i to stay open for.
MayStayOpen(i) ==
    \/ i = sendFd_ /\ left # 0 /\ writing
    \/ Len(Response(i)) = 1
    \/ ~Answered(i)

\* What responses a client is owed depends on its requests alone.
LEMMA OwedUnchanged ==
    ASSUME NEW i, UNCHANGED requests
    PROVE  Response(i)' = Response(i) /\ Answered(i)' = Answered(i)
BY DEF Response, Answered

\* Types, and who shuts the connection down.
LEMMA TypeStep == TypeOK /\ ShutdownInv /\ [Next]_vars => TypeOK' /\ ShutdownInv'
<1> SUFFICES ASSUME TypeOK, ShutdownInv, [Next]_vars PROVE TypeOK' /\ ShutdownInv'
  OBVIOUS
<1>1. CASE OnRequest
  <2>1. /\ next <= Len(requests) /\ next' = next + 1 /\ UNCHANGED requests
        /\ SetSendFd(requests[next].path)
    BY <1>1 DEF OnRequest
  <2>2. requests[next] \in Request /\ next \in Nat \ {0}
    <3>1. requests \in Seq(Request) /\ next \in Nat \ {0}
      BY DEF TypeOK
    <3>2. next \in 1..Len(requests)
      BY <2>1, <3>1
    <3> QED
      BY <3>1, <3>2
  <2>3. left' \in Nat
    <3>1. CASE Resolve(requests[next].path) = <<>>
      BY <2>1, <3>1 DEF SetSendFd, fileVars, TypeOK
    <3>2. CASE Resolve(requests[next].path) # <<>>
      <4>1. requests[next].path \in Paths
        BY <2>2 DEF Request
      <4> QED
        BY <2>1, <3>2, <4>1, FileOf DEF SetSendFd
    <3> QED
      BY <3>1, <3>2
  <2>4. \/ state_' = state_
        \/ state_' = "kDisconnecting" /\ requests[next].close
    BY <1>1 DEF OnRequest, Shutdown, connVars
  <2>5. next' \in Nat \ {0} /\ next \in 1..(next' - 1) /\ 1..(next - 1) \subseteq 1..(next' - 1)
    BY <2>1, <2>2
  <2>6. TypeOK'
    BY <2>1, <2>3, <2>4, <2>5 DEF TypeOK
  <2>7. ShutdownInv'
    <3>1. SUFFICES ASSUME state_' = "kDisconnecting"
                   PROVE  \E j \in 1..(next' - 1) : requests'[j].close
      BY DEF ShutdownInv
    <3>2. \E j \in 1..(next' - 1) : requests[j].close
      BY <2>4, <2>5, <3>1 DEF ShutdownInv
    <3> QED
      BY <2>1, <3>2
  <2> QED
    BY <2>6, <2>7
<1>2. CASE HandleWriteBuffer \/ Close
  <2>1. UNCHANGED <<requests, next, left>> /\ (state_' = state_ \/ state_' = "kDisconnected")
    BY <1>2 DEF HandleWriteBuffer, Close, fileVars
  <2> QED
    BY <2>1 DEF TypeOK, ShutdownInv
<1>3. CASE HandleWriteFile
  <2>1. UNCHANGED <<requests, next, state_>> /\ \E n \in 1..left : left' = left - n
    BY <1>3 DEF HandleWriteFile
  <2> QED
    BY <2>1 DEF TypeOK, ShutdownInv
<1>4. CASE UNCHANGED vars
  BY <1>4 DEF vars, connVars, fileVars, TypeOK, ShutdownInv
<1> QED
  BY <1>1, <1>2, <1>3, <1>4 DEF Next, HandleWrite

\* A request opens a file only when the one before it is closed, and starts
\* sending it; the end of a file closes it.
LEMMA ClosedStep == FilesInv /\ [Next]_vars => FilesClosed'
<1> SUFFICES ASSUME FilesInv, [Next]_vars, ~overlapped', alive', state_' # "kDisconnected",
                    NEW i \in open'
             PROVE  MayStayOpen(i)'
  BY DEF FilesClosed, MayStayOpen
<1>0. TypeOK /\ ShutdownInv
  BY DEF FilesInv
<1>a. ASSUME ~overlapped, alive, state_ # "kDisconnected", i \in open PROVE MayStayOpen(i)
  BY <1>a DEF FilesInv, FilesClosed, MayStayOpen
<1>1. CASE OnRequest
  <2> DEFINE path == requests[next].path
  <2>1. /\ ~overlapped /\ left = 0 /\ ~(writing /\ state_ = "kDisconnecting")
        /\ alive /\ state_ # "kDisconnected" /\ UNCHANGED requests
        /\ SetSendFd(path) /\ Send /\ Shutdown(requests[next].close)
    BY <1>1 DEF OnRequest
  <2>2. CASE i \in open
    BY <1>a, <2>1, <2>2, OwedUnchanged DEF MayStayOpen
  <2>3. CASE i \notin open
    <3>1. Resolve(path) # <<>> /\ i = next /\ sendFd_' = next /\ left' = Stat[Resolve(path)[1]].size
      BY <2>1, <2>3 DEF SetSendFd, fileVars
    <3>2. CASE left' = 0
      BY <2>1, <3>1, <3>2, EmptyResponse, OwedUnchanged DEF MayStayOpen
    <3>3. CASE left' # 0 /\ state_ = "kConnected"
      <4>1. writing'
        BY <2>1, <3>3 DEF Send, Rest
      <4> QED
        BY <3>1, <3>3, <4>1 DEF MayStayOpen
    <3>4. CASE state_ = "kDisconnecting"
      BY <1>0, <2>1, <3>1, <3>4, OwedUnchanged DEF ShutdownInv, Answered, MayStayOpen
    <3> QED
      BY <1>0, <2>1, <3>2, <3>3, <3>4 DEF TypeOK
  <2> QED
    BY <2>2, <2>3
<1>2. CASE HandleWriteBuffer
  <2>1. /\ UNCHANGED <<requests, state_, sendFd_, left, open, overlapped>> /\ alive
        /\ left # 0 => UNCHANGED writing
    BY <1>2 DEF HandleWriteBuffer, AllOut, fileVars
  <2> QED
    BY <1>a, <2>1, OwedUnchanged DEF MayStayOpen
<1>3. CASE HandleWriteFile
  <2>1. PICK n \in 1..left :
           /\ left' = left - n
           /\ IF n = left THEN Drained /\ CloseFile ELSE UNCHANGED <<writing, fin, open>>
    BY <1>3 DEF HandleWriteFile
  <2>2. UNCHANGED <<requests, state_, sendFd_, overlapped>> /\ alive
    BY <1>3 DEF HandleWriteFile
  <2>3. CASE n = left
    BY <1>a, <2>1, <2>2, <2>3, OwedUnchanged DEF CloseFile, MayStayOpen
  <2>4. CASE n # left
    <3>1. left' # 0
      BY <1>0, <2>1, <2>4 DEF TypeOK
    <3> QED
      BY <1>a, <2>1, <2>2, <2>4, <3>1, OwedUnchanged DEF MayStayOpen
  <2> QED
    BY <2>3, <2>4
<1>4. CASE Close
  BY <1>4 DEF Close
<1>5. CASE UNCHANGED vars
  BY <1>a, <1>5, OwedUnchanged DEF vars, connVars, fileVars, MayStayOpen
<1> QED
  BY <1>1, <1>2, <1>3, <1>4, <1>5 DEF Next, HandleWrite

\* Whatever files the requests name, the descriptors of a long connection do
\* not pile up: handleWrite() closes each file before the next one is opened.
THEOREM FilesGetClosed == Spec => []FilesClosed
<1>1. Init => FilesInv
  <2> SUFFICES ASSUME Init PROVE FilesInv
    OBVIOUS
  <2>1. requests \in Seq(Request)
    BY WebAssumption, Zenon DEF Init, Request
  <2>2. TypeOK
    BY <2>1 DEF Init, TypeOK
  <2>3. ShutdownInv /\ FilesClosed
    BY DEF Init, ShutdownInv, FilesClosed
  <2> QED
    BY <2>2, <2>3 DEF FilesInv
<1>2. FilesInv /\ [Next]_vars => FilesInv'
  BY TypeStep, ClosedStep DEF FilesInv
<1> QED
  BY <1>1, <1>2, PTL DEF Spec, FilesInv

-----------------------------------------------------------------------------
(* Responses on the wire.                                                  *)

Unit == Nat \X {"header", "file"}

\* n bytes of the file of request i.
Bytes(i, n) == [k \in 1..n |-> <<i, "file">>]

\* The part of the current file that handleWrite() has not sent.
Pending == IF writing THEN Bytes(next - 1, left) ELSE <<>>

WireType ==
    /\ wire \in Seq(Unit) /\ outBuffer_ \in Seq(Unit)
    /\ writing \in BOOLEAN /\ fin \in BOOLEAN
    /\ sendFd_ \in Nat

\* On a connection that is up, wire, outBuffer_ and the rest of the file are
\* together what the requests call for.
SentInv ==
    IF alive /\ state_ # "kDisconnected"
    THEN wire \o outBuffer_ \o Pending = Responses(next - 1)
    ELSE IsPrefix(wire, Responses(next - 1))

(***************************************************************************)
(* Nothing is buffered when nothing is written, and nothing written after  *)
(* the FIN; the requests before the next one are answered; and the file    *)
(* being sent is that of the last request.                                 *)
(***************************************************************************)
FramedInv ==
    /\ state_ = "kDisconnected" => ~writing
    /\ state_ # "kDisconnected" /\ ~writing => outBuffer_ = <<>>
    /\ fin => state_ # "kConnected" /\ ~writing
    /\ alive /\ state_ = "kConnected" => Answered(next)
    /\ ~overlapped => SentInv /\ (fin => wire = Responses(next - 1))
    /\ ~overlapped /\ alive /\ writing /\ left # 0 /\ sendFd_ # None => sendFd_ = next - 1

\* Bytes of a file add up.
LEMMA BytesAdd ==
    ASSUME NEW i \in Nat, NEW m \in Nat, NEW n \in Nat
    PROVE  /\ Bytes(i, n) \in Seq(Unit) /\ Bytes(i, 0) = <<>>
           /\ Bytes(i, m) \o Bytes(i, n) = Bytes(i, m + n)
<1>1. \A k \in Nat : Bytes(i, k) \in Seq(Unit) /\ Len(Bytes(i, k)) = k
                     /\ \A j \in 1..k : Bytes(i, k)[j] = <<i, "file">>
  <2>1. <<i, "file">> \in Unit
    BY DEF Unit
  <2> QED
    BY <2>1 DEF Bytes
<1>2. Bytes(i, 0) = <<>>
  BY DEF Bytes
<1>3. Bytes(i, m) \o Bytes(i, n) = Bytes(i, m + n)
  <2> DEFINE s == Bytes(i, m) \o Bytes(i, n)
  <2>1. s \in Seq(Unit) /\ Len(s) = m + n
        /\ \A j \in 1..(m + n) : s[j] = IF j <= m THEN Bytes(i, m)[j] ELSE Bytes(i, n)[j - m]
    <3> DEFINE a == Bytes(i, m)
               b == Bytes(i, n)
    <3>1. a \in Seq(Unit) /\ b \in Seq(Unit) /\ Len(a) = m /\ Len(b) = n
      BY <1>1
    <3> HIDE DEF a, b
    <3>2. a \o b \in Seq(Unit) /\ Len(a \o b) = m + n
          /\ \A j \in 1..(m + n) : (a \o b)[j] = IF j <= m THEN a[j] ELSE b[j - m]
      BY <3>1, ConcatProperties
    <3> QED
      BY <3>2 DEF a, b
  <2>2. \A j \in 1..(m + n) : s[j] = <<i, "file">>
    BY <1>1, <2>1
  <2>3. m + n \in Nat
    OBVIOUS
  <2>4. Bytes(i, m + n) \in Seq(Unit) /\ Len(Bytes(i, m + n)) = m + n
        /\ \A j \in 1..(m + n) : Bytes(i, m + n)[j] = <<i, "file">>
    BY <1>1, <2>3
  <2> HIDE DEF s
  <2>5. s = Bytes(i, m + n)
    BY <2>1, <2>2, <2>4, SeqEqual
  <2> QED
    BY <2>5 DEF s
<1> QED
  BY <1>1, <1>2, <1>3

\* A part in front is a prefix, and stays one.
LEMMA FrontIsPrefix ==
    ASSUME NEW S, NEW s \in Seq(S), NEW t \in Seq(S), NEW r \in Seq(S)
    PROVE  /\ IsPrefix(s, s \o t)
           /\ IsPrefix(s, r) => IsPrefix(s, r \o t)
<1>1. \A x \in Seq(S) : Len(s) <= Len(x) /\ (\A k \in 1..Len(s) : x[k] = s[k]) <=> IsPrefix(s, x)
  BY DEF IsPrefix
<1>2. s \o t \in Seq(S) /\ r \o t \in Seq(S)
  BY ConcatProperties
<1>3. IsPrefix(s, s \o t)
  <2>1. Len(s) <= Len(s \o t) /\ \A k \in 1..Len(s) : (s \o t)[k] = s[k]
    BY ConcatProperties
  <2> QED
    BY <1>1, <1>2, <2>1, Zenon
<1>4. ASSUME IsPrefix(s, r) PROVE IsPrefix(s, r \o t)
  <2>1. Len(s) <= Len(r) /\ \A k \in 1..Len(s) : r[k] = s[k]
    BY <1>1, <1>4
  <2>2. Len(s) <= Len(r \o t) /\ \A k \in 1..Len(s) : (r \o t)[k] = s[k]
    BY <2>1, ConcatProperties
  <2> QED
    BY <1>1, <1>2, <2>2, Zenon
<1> QED
  BY <1>3, <1>4

\* The bytes of the file that request i names.
Size(i) ==
    LET file == Resolve(requests[i].path)
    IN  IF file = <<>> THEN 0 ELSE Stat[file[1]].size

\* A response is a header and a file.
LEMMA ResponseIs ==
    ASSUME TypeOK, NEW i \in 1..Len(requests)
    PROVE  /\ Size(i) \in Nat /\ Response(i) = Header(i) \o Bytes(i, Size(i))
           /\ Response(i) \in Seq(Unit) /\ Header(i) \in Seq(Unit)
<1>1. i \in Nat /\ requests[i].path \in Paths
  <2>1. requests[i] \in Request
    BY DEF TypeOK
  <2> QED
    BY <2>1 DEF Request
<1>2. Size(i) \in Nat
  BY <1>1, FileOf DEF Size
<1>3. Response(i) = Header(i) \o Bytes(i, Size(i))
  BY Zenon DEF Response, Bytes, Size
<1>4. Header(i) \in Seq(Unit)
  BY <1>1 DEF Header, Unit
<1>5. Bytes(i, Size(i)) \in Seq(Unit)
  BY <1>1, <1>2, BytesAdd
<1> QED
  BY <1>2, <1>3, <1>4, <1>5, ConcatProperties

\* The responses up to the next request.
LEMMA ResponsesNext ==
    ASSUME TypeOK, NEW n \in Nat, n < Len(requests)
    PROVE  /\ Responses(n) \in Seq(Unit)
           /\ Responses(n + 1) =
                 Responses(n) \o (IF Answered(n + 1) THEN Response(n + 1) ELSE <<>>)
<1> DEFINE e(i) == IF Answered(i) THEN Response(i) ELSE <<>>
           short == [i \in 1..n |-> e(i)]
           long == [i \in 1..(n + 1) |-> e(i)]
<1>1. \A i \in 1..Len(requests) : e(i) \in Seq(Unit)
  <2>1. <<>> \in Seq(Unit)
    OBVIOUS
  <2> QED
    BY <2>1, ResponseIs
<1>2. 1..n \subseteq 1..Len(requests) /\ 1..(n + 1) \subseteq 1..Len(requests)
      /\ n + 1 \in 1..Len(requests)
  BY DEF TypeOK
<1>3. /\ Responses(n) = FlattenSeq(short)
      /\ Responses(n + 1) = FlattenSeq(long)
  BY DEF Responses
<1> HIDE DEF e
<1>4. short \in Seq(Seq(Unit)) /\ e(n + 1) \in Seq(Unit) /\ long = Append(short, e(n + 1))
  BY <1>1, <1>2
<1> HIDE DEF short, long
<1>5. FlattenSeq(long) = FlattenSeq(short) \o e(n + 1) /\ FlattenSeq(short) \in Seq(Unit)
  BY <1>4, FlattenAppend, FlattenType
<1> QED
  BY <1>3, <1>5 DEF e

\* They depend on the requests alone.
LEMMA ResponsesUnchanged ==
    ASSUME NEW n, UNCHANGED requests
    PROVE  Responses(n)' = Responses(n)
BY DEF Responses, Answered, Response

\* Wire and buffers hold units.
LEMMA WireStep == TypeOK /\ WireType /\ [Next]_vars => WireType'
<1> SUFFICES ASSUME TypeOK, WireType, [Next]_vars PROVE WireType'
  OBVIOUS
<1>0. next \in Nat \ {0} /\ left \in Nat
  BY DEF TypeOK
<1>1. CASE OnRequest
  <2>1. sendFd_' \in Nat
    BY <1>0, <1>1 DEF OnRequest, SetSendFd, fileVars, None, WireType
  <2>2. CASE ~alive'
    BY <1>1, <2>1, <2>2 DEF OnRequest, connVars, WireType
  <2>3. CASE alive'
    <3>1. Send /\ Shutdown(requests[next].close)
      BY <1>1, <2>3 DEF OnRequest
    <3>2. fin' \in BOOLEAN
      BY <3>1 DEF Shutdown, WireType
    <3>3. CASE state_ # "kConnected"
      BY <2>1, <3>1, <3>2, <3>3 DEF Send, WireType
    <3>4. CASE state_ = "kConnected"
      <4>1. PICK n \in {0, 1} : /\ wire' = wire \o SubSeq(Header(next), 1, n)
                                /\ outBuffer_' = outBuffer_ \o SubSeq(Header(next), n + 1, 1)
                                /\ writing' = (writing \/ Rest(n))
        BY <3>1, <3>4 DEF Send
      <4>2. SubSeq(Header(next), 1, n) \in Seq(Unit) /\ SubSeq(Header(next), n + 1, 1) \in Seq(Unit)
        <5>1. Header(next) \in Seq(Unit) /\ Len(Header(next)) = 1
          BY <1>0 DEF Header, Unit
        <5> QED
          BY <5>1, SubSeqProperties
      <4>3. wire' \in Seq(Unit) /\ outBuffer_' \in Seq(Unit)
        BY <4>1, <4>2, ConcatProperties DEF WireType
      <4> QED
        BY <2>1, <3>2, <4>1, <4>3 DEF WireType
    <3> QED
      BY <3>3, <3>4
  <2> QED
    BY <2>2, <2>3
<1>2. CASE HandleWriteBuffer
  <2>1. PICK n \in 1..Len(outBuffer_) :
           /\ wire' = wire \o SubSeq(outBuffer_, 1, n)
           /\ outBuffer_' = SubSeq(outBuffer_, n + 1, Len(outBuffer_))
           /\ IF AllOut(n) THEN Drained ELSE UNCHANGED <<writing, fin>>
    BY <1>2 DEF HandleWriteBuffer
  <2>2. SubSeq(outBuffer_, 1, n) \in Seq(Unit) /\ outBuffer_' \in Seq(Unit)
    BY <2>1, SubSeqProperties DEF WireType
  <2>3. wire' \in Seq(Unit)
    BY <2>1, <2>2, ConcatProperties DEF WireType
  <2>4. writing' \in BOOLEAN /\ fin' \in BOOLEAN
    BY <2>1 DEF WireType, Drained
  <2>5. UNCHANGED sendFd_
    BY <1>2 DEF HandleWriteBuffer, fileVars
  <2> QED
    BY <2>2, <2>3, <2>4, <2>5 DEF WireType
<1>3. CASE HandleWriteFile
  <2>1. PICK n \in 1..left :
           /\ wire' = wire \o [k \in 1..n |-> <<sendFd_, "file">>]
           /\ IF n = left THEN Drained /\ CloseFile ELSE UNCHANGED <<writing, fin, open>>
    BY <1>3 DEF HandleWriteFile
  <2>2. Bytes(sendFd_, n) \in Seq(Unit)
    <3>1. n \in Nat /\ sendFd_ \in Nat
      BY <1>0 DEF WireType
    <3> QED
      BY <3>1, BytesAdd
  <2>3. wire' \in Seq(Unit)
    BY <2>1, <2>2, ConcatProperties DEF WireType, Bytes
  <2>4. writing' \in BOOLEAN /\ fin' \in BOOLEAN
    BY <2>1 DEF WireType, Drained
  <2>5. UNCHANGED <<outBuffer_, sendFd_>>
    BY <1>3 DEF HandleWriteFile
  <2> QED
    BY <2>3, <2>4, <2>5 DEF WireType
<1>4. CASE Close
  BY <1>4 DEF Close, WireType, fileVars
<1>5. CASE UNCHANGED vars
  BY <1>5 DEF vars, connVars, fileVars, WireType
<1> QED
  BY <1>1, <1>2, <1>3, <1>4, <1>5 DEF Next, HandleWrite

\* A request adds its response to what the client is owed, and its header and
\* its file to what is to be sent; after a shutdown, neither.
LEMMA RequestFramed ==
    ASSUME TypeOK, ShutdownInv, WireType, WireType', FramedInv, OnRequest
    PROVE  FramedInv'
<1> DEFINE path == requests[next].path
<1>0. /\ next \in Nat \ {0} /\ left \in Nat /\ requests \in Seq(Request)
      /\ state_ \in {"kConnected", "kDisconnecting", "kDisconnected"}
  BY DEF TypeOK
<1>1. /\ alive /\ state_ # "kDisconnected" /\ next <= Len(requests) /\ next' = next + 1
      /\ UNCHANGED requests /\ SetSendFd(path)
      /\ ~overlapped' => ~overlapped /\ left = 0 /\ ~(writing /\ state_ = "kDisconnecting")
  BY DEF OnRequest
<1>2. PICK c \in Nat : c = next - 1 /\ c + 1 = next /\ c < Len(requests) /\ next' - 1 = c + 1
  BY <1>0, <1>1
<1>3. /\ Responses(c) \in Seq(Unit)
      /\ Responses(next) = Responses(c) \o (IF Answered(next) THEN Response(next) ELSE <<>>)
      /\ Responses(next - 1)' = Responses(next)
  <2>1. Responses(c + 1)' = Responses(c + 1)
    BY <1>1, ResponsesUnchanged
  <2>2. Responses(next - 1)' = Responses(c + 1)'
    BY <1>2
  <2>3. /\ Responses(c) \in Seq(Unit)
        /\ Responses(c + 1) =
              Responses(c) \o (IF Answered(c + 1) THEN Response(c + 1) ELSE <<>>)
    BY <1>2, ResponsesNext
  <2> QED
    BY <1>2, <2>1, <2>2, <2>3
<1>4. /\ Size(next) \in Nat /\ Response(next) = Header(next) \o Bytes(next, Size(next))
      /\ Header(next) \in Seq(Unit) /\ Response(next) \in Seq(Unit)
  <2>1. next \in 1..Len(requests)
    BY <1>0, <1>1
  <2> QED
    BY <2>1, ResponseIs
<1>5. state_ # "kConnected" => ~Answered(next)
  BY <1>0, <1>1 DEF ShutdownInv, Answered
<1>6. ~overlapped => wire \o outBuffer_ \o Pending = Responses(c) /\ (fin => wire = Responses(c))
  BY <1>1, <1>2 DEF FramedInv, SentInv
<1>7. state_ # "kConnected" => Responses(next) = Responses(c)
  BY <1>3, <1>5, ConcatEmptySeq
<1>8. left = 0 => left' = Size(next)
  <2>1. CASE Resolve(path) = <<>>
    BY <1>1, <2>1 DEF SetSendFd, fileVars, Size
  <2>2. CASE Resolve(path) # <<>>
    BY <1>1, <2>2 DEF SetSendFd, Size
  <2> QED
    BY <2>1, <2>2
<1>9. left' # 0 /\ left = 0 /\ sendFd_' # None => sendFd_' = next' - 1
  BY <1>0, <1>1 DEF SetSendFd, fileVars
<1>10. CASE ~alive'
  <2>1. UNCHANGED connVars
    BY <1>10 DEF OnRequest
  <2>2. ASSUME ~overlapped' PROVE IsPrefix(wire', Responses(next)) /\ (fin' => wire' = Responses(next))
    <3>1. wire \o outBuffer_ \o Pending = Responses(c) /\ UNCHANGED <<wire, fin>>
      BY <1>1, <1>6, <2>1, <2>2 DEF connVars
    <3>2. Pending \in Seq(Unit)
      <4>1. <<>> \in Seq(Unit)
        OBVIOUS
      <4> QED
        BY <1>0, <1>2, <4>1, BytesAdd DEF Pending
    <3>3. IsPrefix(wire, Responses(c))
      <4>1. outBuffer_ \o Pending \in Seq(Unit)
        BY <3>2, ConcatProperties DEF WireType
      <4>2. wire \o (outBuffer_ \o Pending) = Responses(c)
        <5>1. \A x, y, z \in Seq(Unit) : (x \o y) \o z = x \o (y \o z)
          BY ConcatAssociative
        <5> QED
          BY <3>1, <3>2, <5>1, Zenon DEF WireType
      <4> QED
        BY <4>1, <4>2, FrontIsPrefix DEF WireType
    <3>4. IsPrefix(wire, Responses(next))
      <4> DEFINE add == IF Answered(next) THEN Response(next) ELSE <<>>
      <4>1. add \in Seq(Unit)
        BY <1>4, EmptySeq
      <4>2. Responses(next) = Responses(c) \o add
        BY <1>3
      <4> HIDE DEF add
      <4> QED
        BY <1>3, <3>3, <4>1, <4>2, FrontIsPrefix DEF WireType
    <3>5. fin => wire = Responses(next)
      BY <1>1, <1>6, <1>7, <2>2 DEF FramedInv
    <3> QED
      BY <3>1, <3>4, <3>5
  <2>3. ~overlapped' => SentInv' /\ (fin' => wire' = Responses(next - 1)')
    BY <1>3, <1>10, <2>2 DEF SentInv
  <2>4. /\ state_' = "kDisconnected" => ~writing'
        /\ state_' # "kDisconnected" /\ ~writing' => outBuffer_' = <<>>
        /\ fin' => state_' # "kConnected" /\ ~writing'
    BY <2>1 DEF FramedInv, connVars
  <2> QED
    BY <1>10, <2>3, <2>4 DEF FramedInv
<1>11. CASE alive' /\ state_ # "kConnected"
  <2>1. UNCHANGED <<writing, outBuffer_, wire, state_, fin>>
    BY <1>11 DEF OnRequest, Send, Shutdown, WireType
  <2>a. state_' # "kDisconnected"
    BY <1>1, <2>1
  <2>2. ASSUME ~overlapped' PROVE ~writing /\ wire \o outBuffer_ \o <<>> = Responses(next)
    <3>1. ~writing
      BY <1>0, <1>1, <1>11, <2>2
    <3> QED
      BY <1>1, <1>6, <1>7, <1>11, <2>2, <3>1 DEF Pending
  <2>3. ~overlapped' => SentInv' /\ (fin' => wire' = Responses(next - 1)')
    BY <1>1, <1>3, <1>6, <1>7, <1>11, <2>1, <2>2 DEF SentInv, Pending
  <2> QED
    BY <1>11, <2>1, <2>a, <2>2, <2>3 DEF FramedInv
<1>12. CASE alive' /\ state_ = "kConnected"
  <2>1. Send /\ Shutdown(requests[next].close)
    BY <1>12 DEF OnRequest
  <2>2. PICK n \in IF ~writing /\ outBuffer_ = <<>> THEN {0, 1} ELSE {0} :
           /\ wire' = wire \o SubSeq(Header(next), 1, n)
           /\ outBuffer_' = outBuffer_ \o SubSeq(Header(next), n + 1, 1)
           /\ writing' = (writing \/ Rest(n))
    BY <1>12, <2>1 DEF Send
  <2>3. Answered(next) /\ Responses(next) = Responses(c) \o Response(next)
    BY <1>1, <1>3, <1>12 DEF FramedInv
  <2>4. \/ n = 0 /\ wire' = wire /\ outBuffer_' = outBuffer_ \o Header(next) /\ writing'
        \/ /\ n = 1 /\ wire' = wire \o Header(next) /\ outBuffer_' = <<>> /\ outBuffer_ = <<>>
           /\ ~writing /\ (~writing' => left' = 0)
    <3>1. SubSeq(Header(next), 1, 0) = <<>> /\ SubSeq(Header(next), 2, 1) = <<>>
      BY SubSeqEmpty
    <3>2. SubSeq(Header(next), 1, 1) = Header(next)
      <4>1. Len(Header(next)) = 1
        BY DEF Header
      <4> QED
        BY <1>4, <4>1, SubSeqFull
    <3>3. wire \o <<>> = wire /\ <<>> \o <<>> = <<>>
      BY ConcatEmptySeq DEF WireType
    <3>4. CASE n = 0
      <4>1. SubSeq(Header(next), n + 1, 1) = Header(next) /\ SubSeq(Header(next), 1, n) = <<>>
        BY <3>1, <3>2, <3>4
      <4>2. Rest(n)
        BY <3>4 DEF Rest
      <4> QED
        BY <2>2, <3>3, <3>4, <4>1, <4>2, Zenon
    <3>5. CASE n = 1
      <4>1. ~writing /\ outBuffer_ = <<>>
        BY <2>2, <3>5
      <4> QED
        <5>1. SubSeq(Header(next), n + 1, 1) = <<>> /\ SubSeq(Header(next), 1, n) = Header(next)
          BY <3>1, <3>2, <3>5
        <5>2. left' # 0 => Rest(n)
          BY DEF Rest
        <5> QED
          BY <2>2, <3>3, <3>5, <4>1, <5>1, <5>2, Zenon
    <3> QED
      BY <2>2, <3>4, <3>5
  <2>a. state_' # "kDisconnected"
    BY <1>12, <2>1 DEF Shutdown
  <2>5. state_' # "kDisconnected" /\ ~writing' => outBuffer_' = <<>>
    BY <2>4
  <2>6. fin' => state_' # "kConnected" /\ ~writing'
    BY <1>12, <2>1 DEF Shutdown, FramedInv
  <2>7. state_' = "kConnected" => Answered(next)'
    <3>1. state_' = "kConnected" => ~requests[next].close
      BY <1>12, <2>1 DEF Shutdown
    <3>2. \A j \in 1..(next' - 1) : j \in 1..(next - 1) \/ j = next
      BY <1>0, <1>1
    <3> QED
      BY <1>1, <2>3, <3>1, <3>2 DEF Answered
  <2>8. ASSUME ~overlapped' PROVE wire' \o outBuffer_' \o Pending' = Responses(next)
    <3>1. left = 0 /\ left' = Size(next) /\ ~overlapped
      BY <1>1, <1>8, <2>8
    <3>2. Pending = <<>>
      BY <1>0, <1>2, <3>1, BytesAdd DEF Pending
    <3>3. Pending' = Bytes(next, Size(next))
      <4>1. CASE writing'
        <5>1. next' - 1 = next
          BY <1>0, <1>1
        <5> QED
          BY <3>1, <4>1, <5>1 DEF Pending, Bytes
      <4>2. CASE ~writing'
        BY <1>0, <2>4, <3>1, <4>2, BytesAdd DEF Pending
      <4> QED
        BY <4>1, <4>2
    <3> DEFINE h == Header(next)
               b == Bytes(next, Size(next))
               all == Responses(c)
    <3>4. h \in Seq(Unit) /\ b \in Seq(Unit) /\ all \in Seq(Unit)
      BY <1>0, <1>3, <1>4, BytesAdd
    <3>5. Responses(next) = all \o (h \o b) /\ all = wire \o outBuffer_
      <4>1. wire \o outBuffer_ \in Seq(Unit)
        BY ConcatProperties DEF WireType
      <4> QED
        BY <1>4, <1>6, <2>3, <3>1, <3>2, <4>1, ConcatEmptySeq
    <3>6. wire' \o outBuffer_' = all \o h
      <4> HIDE DEF h, b, all
      <4>1. wire \in Seq(Unit) /\ outBuffer_ \in Seq(Unit)
        BY DEF WireType
      <4>2. CASE n = 0
        <5>1. wire' = wire /\ outBuffer_' = outBuffer_ \o h
          BY <2>4, <4>2 DEF h
        <5>2. \A x, y, z \in Seq(Unit) : (x \o y) \o z = x \o (y \o z)
          BY ConcatAssociative
        <5> QED
          BY <3>4, <3>5, <4>1, <5>1, <5>2, Zenon
      <4>3. CASE n = 1
        <5>1. wire' = wire \o h /\ outBuffer_' = <<>> /\ outBuffer_ = <<>>
          BY <2>4, <4>3 DEF h
        <5>2. all = wire
          BY <3>5, <4>1, <5>1, ConcatEmptySeq
        <5>3. wire \o h \in Seq(Unit)
          BY <3>4, <4>1, ConcatProperties
        <5> QED
          BY <5>1, <5>2, <5>3, ConcatEmptySeq
      <4> QED
        BY <2>2, <4>2, <4>3
    <3> HIDE DEF h, b, all
    <3>7. all \o (h \o b) = (all \o h) \o b
      <4>1. \A x, y, z \in Seq(Unit) : (x \o y) \o z = x \o (y \o z)
        BY ConcatAssociative
      <4> QED
        BY <3>4, <4>1, Zenon
    <3> QED
      BY <3>3, <3>5, <3>6, <3>7 DEF b
  <2>9. ASSUME ~overlapped', fin' PROVE wire' = Responses(next)
    <3>1. ~writing' /\ outBuffer_' = <<>> /\ state_' # "kDisconnected"
      BY <1>1, <1>12, <2>1, <2>5, <2>6, <2>9 DEF Shutdown
    <3>2. wire' \o <<>> \o <<>> = Responses(next)
      BY <2>8, <2>9, <3>1 DEF Pending
    <3> QED
      BY <3>2, ConcatEmptySeq DEF WireType
  <2>10. ~overlapped' => SentInv' /\ (fin' => wire' = Responses(next - 1)')
    BY <1>3, <1>12, <2>a, <2>8, <2>9 DEF SentInv
  <2> QED
    BY <1>1, <1>9, <2>a, <2>5, <2>6, <2>7, <2>10 DEF FramedInv
<1> QED
  BY <1>10, <1>11, <1>12

\* handleWrite() moves bytes from outBuffer_, and then from the file, to the
\* wire, and sends the FIN when there are none left.
LEMMA WriteFramed ==
    ASSUME TypeOK, WireType, WireType', FramedInv, HandleWrite
    PROVE  FramedInv'
<1>0. next \in Nat \ {0} /\ left \in Nat
  BY DEF TypeOK
<1>1. /\ alive /\ writing /\ UNCHANGED <<requests, next, alive, state_, overlapped, sendFd_>>
      /\ state_ \in {"kConnected", "kDisconnecting", "kDisconnected"}
      /\ state_ # "kDisconnected"
  BY DEF HandleWrite, HandleWriteBuffer, HandleWriteFile, fileVars, TypeOK, FramedInv
<1>2. PICK c \in Nat : c = next - 1
  BY <1>0
<1>3. Responses(next - 1)' = Responses(c) /\ Answered(next)' = Answered(next)
  BY <1>1, <1>2, ResponsesUnchanged DEF Answered
<1>4. ~fin
  BY <1>1 DEF FramedInv
<1>5. Pending = Bytes(c, left) /\ Pending' = IF writing' THEN Bytes(c, left') ELSE <<>>
  BY <1>1, <1>2 DEF Pending, Bytes
<1>6. /\ wire \in Seq(Unit) /\ outBuffer_ \in Seq(Unit) /\ wire' \in Seq(Unit)
      /\ outBuffer_' \in Seq(Unit)
  BY DEF WireType
<1>7. \A x, y, z \in Seq(Unit) : (x \o y) \o z = x \o (y \o z)
  BY ConcatAssociative
<1>8. \A x \in Seq(Unit) : x \o <<>> = x /\ <<>> \o x = x
  BY ConcatEmptySeq
<1>9. ASSUME \/ UNCHANGED <<writing, fin>>
             \/ ~writing' /\ fin' = (fin \/ state_ = "kDisconnecting") /\ outBuffer_' = <<>>,
             left' # 0 => left # 0,
             ~overlapped => wire' \o outBuffer_' \o Pending' = wire \o outBuffer_ \o Pending
      PROVE  FramedInv'
  <2>1. /\ state_' # "kDisconnected" /\ (~writing' => outBuffer_' = <<>>)
        /\ fin' => state_' # "kConnected" /\ ~writing' /\ outBuffer_' = <<>>
    <3>1. \/ writing' /\ ~fin'
          \/ ~writing' /\ (fin' => state_ = "kDisconnecting") /\ outBuffer_' = <<>>
      BY <1>1, <1>4, <1>9, Zenon
    <3> QED
      BY <1>1, <3>1
  <2>2. ASSUME ~overlapped, state_ # "kDisconnected"
        PROVE  wire' \o outBuffer_' \o Pending' = Responses(c)
    BY <1>1, <1>2, <1>9, <2>2 DEF FramedInv, SentInv
  <2>3. ASSUME ~overlapped, fin' PROVE wire' = Responses(c)
    <3>1. ~writing' /\ outBuffer_' = <<>> /\ Pending' = <<>> /\ state_ # "kDisconnected"
      BY <1>1, <1>4, <1>5, <1>9, <2>3
    <3>2. wire' \o <<>> \o <<>> = wire'
      BY <1>6, <1>8
    <3> QED
      BY <2>2, <2>3, <3>1, <3>2
  <2>5. ~overlapped' => SentInv' /\ (fin' => wire' = Responses(next - 1)')
    BY <1>1, <1>3, <2>2, <2>3 DEF SentInv
  <2>6. ~overlapped /\ writing' /\ left' # 0 /\ sendFd_' # None => sendFd_' = next' - 1
    BY <1>1, <1>9 DEF FramedInv
  <2> QED
    BY <1>1, <1>3, <2>1, <2>5, <2>6 DEF FramedInv
<1>10. CASE HandleWriteBuffer
  <2>1. PICK n \in 1..Len(outBuffer_) :
           /\ wire' = wire \o SubSeq(outBuffer_, 1, n)
           /\ outBuffer_' = SubSeq(outBuffer_, n + 1, Len(outBuffer_))
           /\ IF AllOut(n) THEN Drained ELSE UNCHANGED <<writing, fin>>
    BY <1>10 DEF HandleWriteBuffer
  <2>2. UNCHANGED left
    BY <1>10 DEF HandleWriteBuffer, fileVars
  <2> DEFINE a == SubSeq(outBuffer_, 1, n)
  <2>3. a \in Seq(Unit) /\ a \o outBuffer_' = outBuffer_
    <3>1. n \in Nat /\ n <= Len(outBuffer_) /\ Len(outBuffer_) \in Nat
      BY <1>6, <2>1
    <3> QED
      BY <1>6, <2>1, <3>1
  <2>4. wire' \o outBuffer_' = wire \o outBuffer_
    <3>1. wire' = wire \o a
      BY <2>1
    <3>2. (wire \o a) \o outBuffer_' = wire \o (a \o outBuffer_')
      BY <1>6, <1>7, <2>3, Zenon
    <3> QED
      BY <2>3, <3>1, <3>2, Zenon
  <2>5. CASE AllOut(n)
    <3>1. ~writing' /\ fin' = (fin \/ state_ = "kDisconnecting") /\ left = 0 /\ n = Len(outBuffer_)
      BY <2>1, <2>5 DEF AllOut, Drained
    <3>2. outBuffer_' = <<>>
      BY <1>6, <2>1, <3>1, SubSeqEmpty
    <3>3. Pending' = <<>> /\ Pending = <<>>
      BY <1>2, <1>5, <3>1, BytesAdd
    <3> QED
      BY <1>9, <2>2, <2>4, <3>1, <3>2, <3>3
  <2>6. CASE ~AllOut(n)
    <3>1. UNCHANGED <<writing, fin>>
      BY <2>1, <2>6
    <3>2. Pending' = Pending
      BY <1>1, <1>5, <2>2, <3>1
    <3> QED
      BY <1>9, <2>2, <2>4, <3>1, <3>2
  <2> QED
    BY <2>5, <2>6
<1>11. CASE HandleWriteFile
  <2>1. PICK n \in 1..left :
           /\ wire' = wire \o [k \in 1..n |-> <<sendFd_, "file">>]
           /\ left' = left - n
           /\ IF n = left THEN Drained /\ CloseFile ELSE UNCHANGED <<writing, fin, open>>
    BY <1>11 DEF HandleWriteFile
  <2>2. outBuffer_ = <<>> /\ outBuffer_' = <<>> /\ left # 0 /\ sendFd_ # None
    BY <1>11 DEF HandleWriteFile
  <2>3. n \in Nat /\ left - n \in Nat /\ n + (left - n) = left
    BY <1>0, <2>1
  <2>4. ASSUME ~overlapped PROVE wire' \o outBuffer_' \o Pending' = wire \o outBuffer_ \o Pending
    <3> DEFINE a == Bytes(c, n)
               b == Bytes(c, left - n)
    <3>1. a \in Seq(Unit) /\ b \in Seq(Unit) /\ a \o b = Bytes(c, left)
      <4>1. Bytes(c, n) \o Bytes(c, left - n) = Bytes(c, n + (left - n))
        BY <1>2, <2>3, BytesAdd
      <4> QED
        BY <1>2, <2>3, <4>1, BytesAdd
    <3>2. sendFd_ = c
      BY <1>1, <1>2, <2>2, <2>4 DEF FramedInv
    <3>3. wire' = wire \o a
      BY <2>1, <3>2 DEF Bytes
    <3>4. Pending' = b
      <4>1. CASE n = left
        <5>1. ~writing' /\ left - n = 0
          BY <1>0, <2>1, <4>1 DEF Drained
        <5>2. b = <<>>
          BY <1>2, <5>1, BytesAdd
        <5> QED
          BY <1>5, <5>1, <5>2
      <4>2. CASE n # left
        BY <1>1, <1>5, <2>1, <4>2
      <4> QED
        BY <4>1, <4>2
    <3>5. Pending = a \o b
      BY <1>5, <3>1
    <3> HIDE DEF a, b
    <3>6. wire \o outBuffer_ = wire /\ wire' \o outBuffer_' = wire'
      BY <1>6, <1>8, <2>2
    <3>7. (wire \o a) \o b = wire \o (a \o b)
      BY <1>6, <1>7, <3>1, Zenon
    <3> QED
      BY <3>3, <3>4, <3>5, <3>6, <3>7
  <2>5. \/ UNCHANGED <<writing, fin>>
        \/ ~writing' /\ fin' = (fin \/ state_ = "kDisconnecting") /\ outBuffer_' = <<>>
    BY <2>1, <2>2 DEF Drained
  <2> QED
    BY <1>9, <2>2, <2>4, <2>5
<1> QED
  BY <1>10, <1>11 DEF HandleWrite

\* Whatever files the requests name and however the kernel takes the bytes, each
\* header is followed by its file, whole, and the FIN by nothing missing.
THEOREM ResponsesWhole == Spec => []ResponsesFramed
<1> DEFINE Inv == TypeOK /\ ShutdownInv /\ WireType /\ FramedInv
<1>1. Init => Inv
  <2> SUFFICES ASSUME Init PROVE Inv
    OBVIOUS
  <2>1. requests \in Seq(Request)
    BY WebAssumption, Zenon DEF Init, Request
  <2>2. TypeOK /\ ShutdownInv /\ WireType
    <3>1. TypeOK /\ ShutdownInv
      BY <2>1 DEF Init, TypeOK, ShutdownInv
    <3>2. <<>> \in Seq(Unit) /\ None \in Nat
      BY DEF None
    <3> QED
      BY <3>1, <3>2 DEF Init, WireType
  <2>3. Responses(0) = <<>>
    <3>1. FlattenSeq(<<>>) = <<>>
      BY DEF FlattenSeq
    <3> QED
      BY <3>1 DEF Responses
  <2>4. next - 1 = 0 /\ Answered(next)
    BY DEF Init, Answered
  <2>5. wire \o outBuffer_ \o Pending = <<>>
    BY DEF Init, Pending
  <2> QED
    BY <2>2, <2>3, <2>4, <2>5 DEF Init, FramedInv, SentInv
<1>2. Inv /\ [Next]_vars => Inv'
  <2> SUFFICES ASSUME TypeOK, ShutdownInv, WireType, FramedInv, [Next]_vars PROVE Inv'
    OBVIOUS
  <2>1. TypeOK' /\ ShutdownInv' /\ WireType'
    BY TypeStep, WireStep
  <2>2. CASE OnRequest
    BY <2>1, <2>2, RequestFramed
  <2>3. CASE HandleWrite
    BY <2>1, <2>3, WriteFramed
  <2>4. CASE Close \/ UNCHANGED vars
    <3>1. PICK c \in Nat : c = next - 1
      BY DEF TypeOK
    <3>2. /\ UNCHANGED <<requests, next, alive, outBuffer_, fin, wire, sendFd_, left, overlapped>>
          /\ \/ UNCHANGED <<state_, writing>>
             \/ alive /\ state_ # "kDisconnected" /\ state_' = "kDisconnected" /\ ~writing'
      BY <2>4 DEF Close, vars, connVars, fileVars
    <3>3. Responses(next - 1)' = Responses(c) /\ Answered(next)' = Answered(next)
      BY <3>1, <3>2, ResponsesUnchanged DEF Answered
    <3>4. CASE UNCHANGED <<state_, writing>>
      <4>1. Pending' = Pending
        BY <3>2, <3>4 DEF Pending, Bytes
      <4>2. SentInv' = SentInv
        BY <3>1, <3>2, <3>3, <3>4, <4>1 DEF SentInv
      <4> QED
        BY <2>1, <3>1, <3>2, <3>3, <3>4, <4>2 DEF FramedInv
    <3>5. CASE ~UNCHANGED <<state_, writing>>
      <4>1. alive /\ state_ # "kDisconnected" /\ state_' = "kDisconnected" /\ ~writing'
        BY <3>2, <3>5
      <4>2. ~overlapped => IsPrefix(wire, Responses(c))
        <5> SUFFICES ASSUME ~overlapped PROVE IsPrefix(wire, Responses(c))
          OBVIOUS
        <5>1. (wire \o outBuffer_) \o Pending = Responses(c)
          BY <3>1, <4>1 DEF FramedInv, SentInv
        <5>2. Pending \in Seq(Unit)
          <6>1. <<>> \in Seq(Unit)
            OBVIOUS
          <6> QED
            BY <3>1, <6>1, BytesAdd DEF Pending, TypeOK
        <5>3. outBuffer_ \o Pending \in Seq(Unit)
          BY <5>2, ConcatProperties DEF WireType
        <5>4. \A x, y, z \in Seq(Unit) : (x \o y) \o z = x \o (y \o z)
          BY ConcatAssociative
        <5>5. wire \o (outBuffer_ \o Pending) = Responses(c)
          BY <5>1, <5>2, <5>4, Zenon DEF WireType
        <5> QED
          BY <5>3, <5>5, FrontIsPrefix DEF WireType
      <4>3. ~overlapped' => SentInv' /\ (fin' => wire' = Responses(next - 1)')
        BY <3>1, <3>2, <3>3, <4>1, <4>2 DEF SentInv, FramedInv
      <4> QED
        BY <2>1, <3>2, <3>3, <4>1, <4>3 DEF FramedInv
    <3> QED
      BY <3>4, <3>5
  <2> QED
    BY <2>2, <2>3, <2>4 DEF Next
<1>3. Inv => ResponsesFramed
  <2> SUFFICES ASSUME Inv, ~overlapped
               PROVE  IsPrefix(wire, Responses(next - 1)) /\ (fin => wire = Responses(next - 1))
    BY DEF ResponsesFramed
  <2>1. fin => wire = Responses(next - 1)
    BY DEF FramedInv
  <2>2. CASE ~(alive /\ state_ # "kDisconnected")
    BY <2>1, <2>2 DEF FramedInv, SentInv
  <2>3. CASE alive /\ state_ # "kDisconnected"
    <3>1. (wire \o outBuffer_) \o Pending = Responses(next - 1)
      BY <2>3 DEF FramedInv, SentInv
    <3>2. Pending \in Seq(Unit)
      <4>1. <<>> \in Seq(Unit) /\ next - 1 \in Nat /\ left \in Nat
        BY DEF TypeOK
      <4> QED
        BY <4>1, BytesAdd DEF Pending
    <3>3. outBuffer_ \o Pending \in Seq(Unit)
      BY <3>2, ConcatProperties DEF WireType
    <3>4. \A x, y, z \in Seq(Unit) : (x \o y) \o z = x \o (y \o z)
      BY ConcatAssociative
    <3>5. wire \o (outBuffer_ \o Pending) = Responses(next - 1)
      BY <3>1, <3>2, <3>4, Zenon DEF WireType
    <3> QED
      BY <2>1, <3>3, <3>5, FrontIsPrefix DEF WireType
  <2> QED
    BY <2>2, <2>3
<1> QED
  BY <1>1, <1>2, <1>3, PTL DEF Spec

-----------------------------------------------------------------------------
(* LenHeaderCodec.                                                         *)

Byte == ({"len"} \X Int \X Nat) \cup ({"body"} \X Messages \X Nat)

\* A message with the length it is announced with, which a negative one or one
\* that a client made up need not be.
Frame == Int \X Seq(Byte)
Sized(f) == f[1] >= 0 => Len(f[2]) = f[1]

\* What is sent for a sequence of frames, and the frames behind the first n.
Parts(fs) == [i \in 1..Len(fs) |-> Framed(fs[i][1], fs[i][2])]
Stream(fs) == FlattenSeq(Parts(fs))
Behind(fs, n) == SubSeq(fs, n + 1, Len(fs))

\* The first frames are got, all of lengths that are allowed; the bytes of the
\* others are in a buffer and on their way.
Got(fs, got) ==
    /\ Len(got) <= Len(fs)
    /\ \A i \in 1..Len(got) : Acceptable(fs[i][1]) /\ got[i] = fs[i][2]
Arriving(fs, n, buf, todo) == buf \o todo = Stream(Behind(fs, n))

\* The bytes of a frame.
LEMMA FramedIs ==
    ASSUME NEW length \in Int, NEW body \in Seq(Byte)
    PROVE  /\ Framed(length, body) \in Seq(Byte)
           /\ Len(Framed(length, body)) = kHeaderLen + Len(body)
           /\ Framed(length, body)[1] = <<"len", length, 1>>
           /\ SubSeq(Framed(length, body), kHeaderLen + 1, kHeaderLen + Len(body)) = body
<1> DEFINE h == [k \in 1..kHeaderLen |-> <<"len", length, k>>]
<1>1. kHeaderLen \in Nat /\ kHeaderLen >= 1
  BY ChatAssumption
<1>2. \A k \in 1..kHeaderLen : <<"len", length, k>> \in Byte
  BY <1>1 DEF Byte
<1>3. h \in Seq(Byte) /\ Len(h) = kHeaderLen /\ h[1] = <<"len", length, 1>>
  BY <1>1, <1>2
<1>4. Framed(length, body) = h \o body
  BY DEF Framed
<1> HIDE DEF h
<1>5. /\ h \o body \in Seq(Byte) /\ Len(h \o body) = kHeaderLen + Len(body)
      /\ \A i \in 1..(kHeaderLen + Len(body)) :
            (h \o body)[i] = IF i <= kHeaderLen THEN h[i] ELSE body[i - kHeaderLen]
  BY <1>3, ConcatProperties
<1>6. (h \o body)[1] = h[1]
  BY <1>1, <1>5
<1>7. SubSeq(h \o body, kHeaderLen + 1, kHeaderLen + Len(body)) = body
  BY <1>1, <1>3
<1> QED
  BY <1>3, <1>4, <1>5, <1>6, <1>7

\* The parts of a stream.
LEMMA PartsType ==
    ASSUME NEW fs \in Seq(Frame)
    PROVE  Parts(fs) \in Seq(Seq(Byte)) /\ Len(Parts(fs)) = Len(fs)
<1>1. ASSUME NEW i \in 1..Len(fs) PROVE Framed(fs[i][1], fs[i][2]) \in Seq(Byte)
  <2>1. fs[i] \in Frame
    OBVIOUS
  <2>2. fs[i][1] \in Int /\ fs[i][2] \in Seq(Byte)
    BY <2>1 DEF Frame
  <2> QED
    BY <2>2, FramedIs
<1> QED
  BY <1>1 DEF Parts

\* A stream is a sequence of bytes; two streams come one behind the other; and
\* a frame is its own stream.
LEMMA StreamConcat ==
    ASSUME NEW fs \in Seq(Frame), NEW gs \in Seq(Frame)
    PROVE  /\ Stream(fs) \in Seq(Byte)
           /\ Stream(fs \o gs) = Stream(fs) \o Stream(gs)
           /\ Stream(<<>>) = <<>>
<1>1. Parts(fs) \in Seq(Seq(Byte)) /\ Parts(gs) \in Seq(Seq(Byte))
  BY PartsType
<1>2. Parts(fs \o gs) = Parts(fs) \o Parts(gs)
  <2> DEFINE all == fs \o gs
  <2>1. all \in Seq(Frame) /\ Len(all) = Len(fs) + Len(gs)
        /\ \A i \in 1..(Len(fs) + Len(gs)) :
              all[i] = IF i <= Len(fs) THEN fs[i] ELSE gs[i - Len(fs)]
    BY ConcatProperties
  <2> HIDE DEF all
  <2>2. Parts(all) \in Seq(Seq(Byte)) /\ Len(Parts(all)) = Len(fs) + Len(gs)
    BY <2>1, PartsType
  <2>3. Parts(fs) \o Parts(gs) \in Seq(Seq(Byte))
        /\ Len(Parts(fs) \o Parts(gs)) = Len(fs) + Len(gs)
        /\ \A i \in 1..(Len(fs) + Len(gs)) :
              (Parts(fs) \o Parts(gs))[i] =
                 IF i <= Len(fs) THEN Parts(fs)[i] ELSE Parts(gs)[i - Len(fs)]
    <3> DEFINE p == Parts(fs)
               q == Parts(gs)
    <3>1. p \in Seq(Seq(Byte)) /\ q \in Seq(Seq(Byte)) /\ Len(p) = Len(fs) /\ Len(q) = Len(gs)
      BY PartsType
    <3> HIDE DEF p, q
    <3>2. /\ p \o q \in Seq(Seq(Byte)) /\ Len(p \o q) = Len(p) + Len(q)
          /\ \A i \in 1..(Len(p) + Len(q)) :
                (p \o q)[i] = IF i <= Len(p) THEN p[i] ELSE q[i - Len(p)]
      BY <3>1, ConcatProperties
    <3> QED
      BY <3>1, <3>2 DEF p, q
  <2>4. ASSUME NEW i \in 1..(Len(fs) + Len(gs))
        PROVE  Parts(all)[i] = (Parts(fs) \o Parts(gs))[i]
    <3>1. Parts(all)[i] = Framed(all[i][1], all[i][2])
      BY <2>1 DEF Parts
    <3>2. CASE i <= Len(fs)
      <4>1. i \in 1..Len(fs)
        BY <3>2
      <4>2. Parts(fs)[i] = Framed(fs[i][1], fs[i][2])
        BY <4>1 DEF Parts
      <4> QED
        BY <2>1, <2>3, <3>1, <3>2, <4>2
    <3>3. CASE i > Len(fs)
      <4>1. i - Len(fs) \in 1..Len(gs) /\ ~(i <= Len(fs))
        BY <3>3
      <4>2. Parts(gs)[i - Len(fs)] = Framed(gs[i - Len(fs)][1], gs[i - Len(fs)][2])
        BY <4>1 DEF Parts
      <4> QED
        BY <2>1, <2>3, <3>1, <4>1, <4>2
    <3>4. i <= Len(fs) \/ i > Len(fs)
      OBVIOUS
    <3> QED
      BY <3>2, <3>3, <3>4, Zenon
  <2> DEFINE p == Parts(all)
             q == Parts(fs) \o Parts(gs)
  <2>5. p = q
    <3>1. p \in Seq(Seq(Byte)) /\ q \in Seq(Seq(Byte)) /\ Len(p) = Len(q)
          /\ \A i \in 1..Len(p) : p[i] = q[i]
      BY <2>2, <2>3, <2>4
    <3> HIDE DEF p, q
    <3> QED
      BY <3>1, SeqEqual
  <2> QED
    BY <2>5 DEF all
<1>3. FlattenSeq(Parts(fs) \o Parts(gs)) = FlattenSeq(Parts(fs)) \o FlattenSeq(Parts(gs))
  BY <1>1, FlattenConcat
<1>4. FlattenSeq(Parts(fs)) \in Seq(Byte) /\ FlattenSeq(<<>>) = <<>>
  BY <1>1, FlattenType
<1>5. Parts(<<>>) = <<>>
  BY DEF Parts
<1> QED
  BY <1>2, <1>3, <1>4, <1>5 DEF Stream

\* A stream begins with its first frame.
LEMMA StreamFirst ==
    ASSUME NEW fs \in Seq(Frame), fs # <<>>
    PROVE  /\ fs[1] \in Frame /\ Behind(fs, 1) \in Seq(Frame)
           /\ Stream(fs) = Framed(fs[1][1], fs[1][2]) \o Stream(Behind(fs, 1))
<1> DEFINE f == fs[1]
           b == Behind(fs, 1)
<1>1. f \in Frame /\ b \in Seq(Frame) /\ fs = <<f>> \o b
  BY DEF Behind
<1> HIDE DEF f, b
<1>2. <<f>> \in Seq(Frame)
  BY <1>1
<1>3. Stream(fs) = Stream(<<f>>) \o Stream(b)
  BY <1>1, <1>2, StreamConcat
<1>4. Stream(<<f>>) = Framed(f[1], f[2])
  <2> DEFINE x == Framed(f[1], f[2])
  <2>1. x \in Seq(Byte)
    BY <1>1, FramedIs DEF Frame
  <2>2. Parts(<<f>>) = Append(<<>>, x)
    BY DEF Parts
  <2> HIDE DEF x
  <2>3. FlattenSeq(Append(<<>>, x)) = FlattenSeq(<<>>) \o x /\ FlattenSeq(<<>>) = <<>>
    <3>1. <<>> \in Seq(Seq(Byte))
      OBVIOUS
    <3> QED
      BY <2>1, <3>1, FlattenAppend, FlattenType
  <2>4. <<>> \o x = x
    BY <2>1, ConcatEmptySeq
  <2> QED
    BY <2>2, <2>3, <2>4 DEF Stream, x
<1> QED
  BY <1>1, <1>3, <1>4 DEF f, b

\* What onMessage() makes of a buffer: messages, a rest, and whether it met a
\* length out of range.
Parsed == [messages : Seq(Seq(Byte)), rest : Seq(Byte), bad : BOOLEAN]

\* One round of the loop of onMessage(), from byte i of the buffer on.
ParseAt(buf, f, i) ==
    LET stop(bad) == [messages |-> <<>>, rest |-> SubSeq(buf, i, Len(buf)), bad |-> bad]
        first == i + kHeaderLen
        last == first + LengthAt(buf, i) - 1
    IN  IF first > Len(buf) + 1 THEN stop(FALSE)
        ELSE IF ~Acceptable(LengthAt(buf, i)) THEN stop(TRUE)
        ELSE IF last > Len(buf) THEN stop(FALSE)
        ELSE [f[last + 1] EXCEPT !.messages = <<SubSeq(buf, first, last)>> \o @]

\* The next round begins behind the header, within the buffer.
LEMMA ParseForward ==
    ASSUME NEW buf \in Seq(Byte), NEW i \in 1..(Len(buf) + 1),
           ~(i + kHeaderLen > Len(buf) + 1), Acceptable(LengthAt(buf, i)),
           ~(i + kHeaderLen + LengthAt(buf, i) - 1 > Len(buf))
    PROVE  LET first == i + kHeaderLen
               last == first + LengthAt(buf, i) - 1
           IN  /\ last + 1 \in 1..(Len(buf) + 1) /\ i < last + 1
               /\ first \in 1..(Len(buf) + 1) /\ last \in 0..Len(buf)
               /\ LengthAt(buf, i) \in Nat
               /\ SubSeq(buf, first, last) \in Seq(Byte)
<1>1. kHeaderLen \in Nat /\ kHeaderLen >= 1 /\ MaxLen \in Nat
  BY ChatAssumption
<1>2. LengthAt(buf, i) \in 0..MaxLen
  BY DEF Acceptable
<1> DEFINE l == LengthAt(buf, i)
           first == i + kHeaderLen
           last == first + l - 1
<1>3. l \in Nat
  BY <1>1, <1>2
<1> HIDE DEF l
<1>4. /\ last + 1 \in 1..(Len(buf) + 1) /\ i < last + 1
      /\ first \in 1..(Len(buf) + 1) /\ last \in 0..Len(buf)
  BY <1>1, <1>3 DEF l
<1>5. SubSeq(buf, first, last) \in Seq(Byte)
  <2> HIDE DEF first, last
  <2>1. \A k \in first..last : buf[k] \in Byte
    BY <1>4
  <2> QED
    BY <1>4, <2>1, SubSeqProperties
<1> QED
  BY <1>3, <1>4, <1>5 DEF l

\* It yields a record of that kind if the later ones do.
LEMMA ParseType ==
    ASSUME NEW buf \in Seq(Byte), NEW f, NEW i \in 1..(Len(buf) + 1),
           \A j \in 1..(Len(buf) + 1) : j > i => f[j] \in Parsed
    PROVE  ParseAt(buf, f, i) \in Parsed
<1> DEFINE first == i + kHeaderLen
           last == first + LengthAt(buf, i) - 1
           stop(bad) == [messages |-> <<>>, rest |-> SubSeq(buf, i, Len(buf)), bad |-> bad]
           more == [f[last + 1] EXCEPT !.messages = <<SubSeq(buf, first, last)>> \o @]
<1>1. stop(TRUE) \in Parsed /\ stop(FALSE) \in Parsed
  <2>1. SubSeq(buf, i, Len(buf)) \in Seq(Byte)
    <3>1. \A k \in i..Len(buf) : buf[k] \in Byte
      OBVIOUS
    <3> QED
      BY <3>1, SubSeqProperties
  <2>2. <<>> \in Seq(Seq(Byte))
    OBVIOUS
  <2> QED
    BY <2>1, <2>2 DEF Parsed
<1>2. ASSUME ~(first > Len(buf) + 1), Acceptable(LengthAt(buf, i)), ~(last > Len(buf))
      PROVE  more \in Parsed
  <2>1. /\ last + 1 \in 1..(Len(buf) + 1) /\ i < last + 1 /\ SubSeq(buf, first, last) \in Seq(Byte)
    BY <1>2, ParseForward
  <2> HIDE DEF first, last
  <2>2. f[last + 1] \in Parsed
    <3>1. last + 1 > i
      BY <2>1
    <3> QED
      BY <2>1, <3>1, Zenon
  <2> DEFINE r == f[last + 1]
             m == <<SubSeq(buf, first, last)>> \o r.messages
  <2>3. m \in Seq(Seq(Byte))
    <3>1. r.messages \in Seq(Seq(Byte))
      BY <2>2 DEF Parsed
    <3>2. <<SubSeq(buf, first, last)>> \in Seq(Seq(Byte))
      BY <2>1
    <3> QED
      BY <3>1, <3>2, ConcatProperties
  <2>4. more = [r EXCEPT !.messages = m]
    OBVIOUS
  <2> HIDE DEF r, m
  <2>5. r \in Parsed
    BY <2>2 DEF r
  <2> QED
    BY <2>3, <2>4, <2>5 DEF Parsed
<1>3. ParseAt(buf, f, i) =
         IF first > Len(buf) + 1 THEN stop(FALSE)
         ELSE IF ~Acceptable(LengthAt(buf, i)) THEN stop(TRUE)
         ELSE IF last > Len(buf) THEN stop(FALSE)
         ELSE more
  BY Zenon DEF ParseAt
<1> HIDE DEF more, stop, first, last
<1> QED
  BY <1>1, <1>2, <1>3

\* Parse is the result of a function that satisfies the rounds.
LEMMA ParseIs ==
    ASSUME NEW buf \in Seq(Byte)
    PROVE  \E f : /\ Parse(buf) = f[1]
                  /\ \A i \in 1..(Len(buf) + 1) :
                        f[i] \in Parsed /\ f[i] = ParseAt(buf, f, i)
<1> DEFINE N == Len(buf) + 1
           D == 1..N
           V == Parsed
           rank == [i \in D |-> N - i]
           H == [x \in D \X [D -> V] |-> ParseAt(buf, x[2], x[1])]
           F(h) == [i \in D |-> ParseAt(buf, h, i)]
           g == CHOOSE h : h = F(h)
<1>0. N \in Nat
  OBVIOUS
<1>1. ASSUME NEW i \in D, NEW f \in [D -> V] PROVE ParseAt(buf, f, i) \in V
  BY ParseType
<1>2. H \in [D \X [D -> V] -> V]
  <2> HIDE DEF D, V
  <2> QED
    BY <1>1
<1>3. ASSUME NEW i \in D, NEW f \in [D -> V], NEW h \in [D -> V],
             \A j \in D : rank[j] < rank[i] => f[j] = h[j]
      PROVE  H[<<i, f>>] = H[<<i, h>>]
  <2> DEFINE first == i + kHeaderLen
             last == first + LengthAt(buf, i) - 1
  <2>1. CASE ~(first > Len(buf) + 1) /\ Acceptable(LengthAt(buf, i)) /\ ~(last > Len(buf))
    <3>1. last + 1 \in D /\ i < last + 1
      BY <2>1, ParseForward
    <3>2. f[last + 1] = h[last + 1]
      <4> HIDE DEF last
      <4>1. rank[last + 1] < rank[i]
        BY <3>1
      <4> QED
        BY <1>3, <3>1, <4>1
    <3>3. ParseAt(buf, f, i) = ParseAt(buf, h, i)
      BY <3>2, Zenon DEF ParseAt
    <3> HIDE DEF D, V
    <3> QED
      BY <3>3
  <2>2. CASE first > Len(buf) + 1 \/ ~Acceptable(LengthAt(buf, i)) \/ last > Len(buf)
    <3>1. ParseAt(buf, f, i) = ParseAt(buf, h, i)
      BY <2>2, Zenon DEF ParseAt
    <3> HIDE DEF D, V
    <3> QED
      BY <3>1
  <2> QED
    BY <2>1, <2>2
<1>4. \E f \in [D -> V] : \A i \in D : f[i] = H[<<i, f>>]
  <2>1. V # {}
    <3>1. [messages |-> <<>>, rest |-> <<>>, bad |-> FALSE] \in Parsed
      BY DEF Parsed
    <3> QED
      BY <3>1
  <2>2. rank \in [D -> 0..N]
    OBVIOUS
  <2> HIDE DEF D, V, rank, H, N
  <2>3. Recursion(D, V, rank, N, H)
    BY <1>0, <1>2, <1>3, <2>1, <2>2 DEF Recursion
  <2> QED
    BY <2>3, RecursiveFunction
<1>5. g = F(g)
  <2>1. PICK f \in [D -> V] : \A i \in D : f[i] = ParseAt(buf, f, i)
    <3> HIDE DEF D, V
    <3> QED
      BY <1>4
  <2>2. f = F(f)
    <3> HIDE DEF D, V
    <3> QED
      BY <2>1
  <2> HIDE DEF F
  <2> QED
    BY <2>2
<1>6. Parse(buf) = g[1]
  BY Zenon DEF Parse, ParseAt
<1> HIDE DEF g
<1>7. \A i \in D : g[i] = ParseAt(buf, g, i)
  BY <1>5
<1>8. \A i \in D : g[i] \in V
  <2> DEFINE T == {n \in Nat : n < N /\ g[N - n] \notin V}
  <2>1. SUFFICES ASSUME T # {} PROVE FALSE
    <3>1. ASSUME NEW i \in D, g[i] \notin V PROVE FALSE
      <4>1. N - i \in Nat /\ N - i < N /\ N - (N - i) = i
        OBVIOUS
      <4>2. N - i \in T
        BY <3>1, <4>1
      <4> QED
        BY <2>1, <4>2
    <3> QED
      BY <3>1
  <2>2. PICK n \in T : \A m \in T : n <= m
    BY <2>1, LeastOf
  <2>3. N - n \in D /\ n \in Nat /\ g[N - n] \notin V
    BY <2>2
  <2>4. ASSUME NEW j \in D, j > N - n PROVE g[j] \in V
    <3>1. N - j \in Nat /\ N - j < N /\ N - (N - j) = j /\ N - j < n
      BY <2>3, <2>4
    <3>2. N - j \notin T
      <4> HIDE DEF T
      <4> QED
        BY <2>2, <2>3, <3>1
    <3> QED
      BY <3>1, <3>2
  <2>5. ParseAt(buf, g, N - n) \in V
    BY <2>3, <2>4, ParseType
  <2> QED
    BY <1>7, <2>3, <2>5
<1> QED
  BY <1>6, <1>7, <1>8

\* The frames behind the first n are frames, of the same sizes.
LEMMA BehindIs ==
    ASSUME NEW S, NEW fs \in Seq(S), NEW n \in 0..Len(fs)
    PROVE  /\ Behind(fs, n) \in Seq(S) /\ Len(Behind(fs, n)) = Len(fs) - n
           /\ \A j \in 1..(Len(fs) - n) : Behind(fs, n)[j] = fs[n + j]
           /\ Behind(fs, 0) = fs
<1>1. n + 1 \in Int /\ Len(fs) \in Nat /\ \A k \in (n + 1)..Len(fs) : fs[k] \in S
  OBVIOUS
<1>2. /\ Behind(fs, n) \in Seq(S)
      /\ Len(Behind(fs, n)) = IF n + 1 <= Len(fs) THEN Len(fs) - (n + 1) + 1 ELSE 0
      /\ \A j \in 1..(Len(fs) - (n + 1) + 1) : Behind(fs, n)[j] = fs[(n + 1) + j - 1]
  BY <1>1, SubSeqProperties DEF Behind
<1>3. Behind(fs, 0) = fs
  BY SubSeqFull DEF Behind
<1>4. \A j \in 1..(Len(fs) - n) : Behind(fs, n)[j] = fs[n + j]
  BY <1>1, <1>2
<1> QED
  BY <1>1, <1>2, <1>3, <1>4

\* Two ways to cut a sequence.
LEMMA CutFront ==
    ASSUME NEW S, NEW a \in Seq(S), NEW m \in Seq(S), NEW f \in Seq(S), NEW x \in Seq(S),
           a \o m = f \o x, Len(f) <= Len(a)
    PROVE  Behind(a, Len(f)) \o m = x /\ \A k \in 1..Len(f) : a[k] = f[k]
<1> DEFINE b == Behind(a, Len(f))
<1>1. /\ b \in Seq(S) /\ Len(b) = Len(a) - Len(f)
      /\ \A j \in 1..(Len(a) - Len(f)) : b[j] = a[Len(f) + j]
  <2>1. Len(f) \in 0..Len(a)
    OBVIOUS
  <2> QED
    BY <2>1, BehindIs
<1> HIDE DEF b
<1>2. /\ Len(a \o m) = Len(a) + Len(m)
      /\ \A i \in 1..(Len(a) + Len(m)) : (a \o m)[i] = IF i <= Len(a) THEN a[i] ELSE m[i - Len(a)]
  BY ConcatProperties
<1>3. /\ Len(f \o x) = Len(f) + Len(x)
      /\ \A i \in 1..(Len(f) + Len(x)) : (f \o x)[i] = IF i <= Len(f) THEN f[i] ELSE x[i - Len(f)]
  BY ConcatProperties
<1>4. /\ b \o m \in Seq(S) /\ Len(b \o m) = Len(b) + Len(m)
      /\ \A i \in 1..(Len(b) + Len(m)) : (b \o m)[i] = IF i <= Len(b) THEN b[i] ELSE m[i - Len(b)]
  BY <1>1, ConcatProperties
<1>5. Len(a) \in Nat /\ Len(m) \in Nat /\ Len(f) \in Nat /\ Len(x) \in Nat /\ Len(b) \in Nat
  BY <1>1
<1>6. Len(x) = Len(b) + Len(m)
  BY <1>1, <1>2, <1>3, <1>5
<1>7. ASSUME NEW i \in 1..Len(x) PROVE (b \o m)[i] = x[i]
  <2>1. /\ Len(f) + i \in 1..(Len(f) + Len(x)) /\ Len(f) + i \in 1..(Len(a) + Len(m))
        /\ ~(Len(f) + i <= Len(f)) /\ (Len(f) + i) - Len(f) = i
        /\ i \in 1..(Len(b) + Len(m))
    BY <1>1, <1>5, <1>6
  <2>2. (f \o x)[Len(f) + i] = x[i]
    BY <1>3, <2>1
  <2>3. CASE i <= Len(b)
    <3>1. i \in 1..(Len(a) - Len(f)) /\ Len(f) + i <= Len(a)
      BY <1>1, <1>5, <2>3
    <3>2. (a \o m)[Len(f) + i] = a[Len(f) + i]
      BY <1>2, <2>1, <3>1
    <3>3. (b \o m)[i] = a[Len(f) + i]
      BY <1>1, <1>4, <2>1, <2>3, <3>1
    <3> QED
      BY <2>2, <3>2, <3>3
  <2>4. CASE ~(i <= Len(b))
    <3>1. ~(Len(f) + i <= Len(a)) /\ (Len(f) + i) - Len(a) = i - Len(b)
      BY <1>1, <1>5, <2>4
    <3>2. (a \o m)[Len(f) + i] = m[i - Len(b)]
      BY <1>2, <2>1, <3>1
    <3>3. (b \o m)[i] = m[i - Len(b)]
      BY <1>4, <2>1, <2>4
    <3> QED
      BY <2>2, <3>2, <3>3
  <2> QED
    BY <2>3, <2>4
<1>8. b \o m = x
  <2> DEFINE s == b \o m
  <2>1. s \in Seq(S) /\ Len(s) = Len(x) /\ \A i \in 1..Len(x) : s[i] = x[i]
    BY <1>4, <1>6, <1>7
  <2> HIDE DEF s
  <2>2. s = x
    BY <2>1, SeqEqual
  <2> QED
    BY <2>2 DEF s
<1>9. ASSUME NEW k \in 1..Len(f) PROVE a[k] = f[k]
  <2>1. k \in 1..(Len(a) + Len(m)) /\ k \in 1..(Len(f) + Len(x)) /\ k <= Len(a) /\ k <= Len(f)
    BY <1>5
  <2> QED
    BY <1>2, <1>3, <2>1
<1> QED
  BY <1>8, <1>9 DEF b

\* What the parser made of the beginning of a stream of frames, when more is
\* still to come: the first messages, up to one that is not all there or whose
\* length is out of range, and from its header on the rest.
Exact(p, fs, more) ==
    /\ Len(p.messages) <= Len(fs)
    /\ \A j \in 1..Len(p.messages) : Acceptable(fs[j][1]) /\ p.messages[j] = fs[j][2]
    /\ p.rest \o more = Stream(Behind(fs, Len(p.messages)))

\* One round of the loop is exact if the later ones are.
LEMMA RoundExact ==
    ASSUME NEW buf \in Seq(Byte), NEW more \in Seq(Byte), NEW f, NEW i \in 1..(Len(buf) + 1),
           \A j \in 1..(Len(buf) + 1) : f[j] \in Parsed,
           \A j \in 1..(Len(buf) + 1) : j > i =>
              \A gs \in Seq(Frame) :
                 (\A k \in 1..Len(gs) : Sized(gs[k]))
                 /\ SubSeq(buf, j, Len(buf)) \o more = Stream(gs) => Exact(f[j], gs, more),
           NEW fs \in Seq(Frame), \A k \in 1..Len(fs) : Sized(fs[k]),
           SubSeq(buf, i, Len(buf)) \o more = Stream(fs)
    PROVE  Exact(ParseAt(buf, f, i), fs, more)
<1> DEFINE l == LengthAt(buf, i)
           first == i + kHeaderLen
           last == first + l - 1
           rest == SubSeq(buf, i, Len(buf))
           stop(bad) == [messages |-> <<>>, rest |-> rest, bad |-> bad]
<1>0. kHeaderLen \in Nat /\ kHeaderLen >= 1 /\ Len(buf) \in Nat /\ i \in Nat /\ i >= 1
  BY ChatAssumption
<1>1. rest \in Seq(Byte) /\ Len(rest) = Len(buf) + 1 - i
      /\ \A k \in 1..(Len(buf) + 1 - i) : rest[k] = buf[i + k - 1]
  <2>1. \A k \in i..Len(buf) : buf[k] \in Byte
    OBVIOUS
  <2> QED
    BY <2>1, SubSeqProperties
<1>2. ASSUME NEW bad PROVE Exact(stop(bad), fs, more)
  <2> DEFINE s == stop(bad)
  <2>1. s.messages = <<>> /\ s.rest = rest
    OBVIOUS
  <2>2. Len(s.messages) = 0 /\ 0 \in 0..Len(fs)
    BY <2>1
  <2>3. Behind(fs, 0) = fs
    BY <2>2, BehindIs
  <2> HIDE DEF s
  <2>4. Exact(s, fs, more)
    BY <2>1, <2>2, <2>3 DEF Exact
  <2> QED
    BY <2>4 DEF s
<1>3. CASE first > Len(buf) + 1 \/ ~Acceptable(l) \/ last > Len(buf)
  <2>1. ParseAt(buf, f, i) = stop(TRUE) \/ ParseAt(buf, f, i) = stop(FALSE)
    BY <1>3, Zenon DEF ParseAt
  <2> QED
    BY <1>2, <2>1, Zenon
<1>4. CASE ~(first > Len(buf) + 1) /\ Acceptable(l) /\ ~(last > Len(buf))
  <2> DEFINE g == fs[1]
             F == Framed(g[1], g[2])
             gs == Behind(fs, 1)
             X == Stream(gs)
             b == SubSeq(buf, first, last)
             r == f[last + 1]
  <2>1. /\ last + 1 \in 1..(Len(buf) + 1) /\ i < last + 1
        /\ first \in 1..(Len(buf) + 1) /\ last \in 0..Len(buf) /\ l \in Nat
    BY <1>4, ParseForward
  <2>2. Len(rest) >= kHeaderLen
    BY <1>0, <1>1, <1>4
  <2>3. fs # <<>>
    <3>1. Len(rest \o more) >= 1
      BY <1>0, <1>1, <2>2, ConcatProperties
    <3>2. Stream(<<>>) = <<>>
      BY StreamConcat
    <3> QED
      BY <3>1, <3>2
  <2>4. g \in Frame /\ gs \in Seq(Frame) /\ rest \o more = F \o X
    BY <2>3, StreamFirst
  <2>5. g[1] \in Int /\ g[2] \in Seq(Byte)
    BY <2>4 DEF Frame
  <2>6. /\ F \in Seq(Byte) /\ Len(F) = kHeaderLen + Len(g[2]) /\ F[1] = <<"len", g[1], 1>>
        /\ SubSeq(F, kHeaderLen + 1, kHeaderLen + Len(g[2])) = g[2]
    BY <2>5, FramedIs
  <2>7. X \in Seq(Byte)
    BY <2>4, StreamConcat
  <2> HIDE DEF rest, F, X
  <2>8. l = g[1]
    <3>1. rest[1] = F[1]
      <4>1. (rest \o more)[1] = rest[1]
        BY <1>0, <1>1, <2>2, ConcatProperties
      <4>2. (F \o X)[1] = F[1]
        <5>1. Len(F) >= 1
          BY <1>0, <2>5, <2>6
        <5> QED
          <6>1. /\ Len(F) \in Nat /\ Len(X) \in Nat
                /\ \A k \in 1..(Len(F) + Len(X)) :
                      (F \o X)[k] = IF k <= Len(F) THEN F[k] ELSE X[k - Len(F)]
            <7>1. F \in Seq(Byte) /\ X \in Seq(Byte)
              BY <2>6, <2>7
            <7> QED
              BY <7>1, ConcatProperties
          <6>2. 1 \in 1..(Len(F) + Len(X)) /\ 1 <= Len(F)
            BY <5>1, <6>1
          <6> QED
            BY <6>1, <6>2
      <4> QED
        BY <2>4, <4>1, <4>2
    <3>2. rest[1] = buf[i]
      BY <1>0, <1>1, <2>2
    <3>3. buf[i] = <<"len", g[1], 1>>
      BY <2>6, <3>1, <3>2
    <3> QED
      BY <3>3 DEF LengthAt
  <2>9. Len(g[2]) = l /\ Len(F) = kHeaderLen + l /\ Len(F) <= Len(rest)
    <3>1. 1 \in 1..Len(fs)
      BY <2>3
    <3>2. Sized(g)
      BY <3>1
    <3> HIDE DEF g, l
    <3>3. Len(g[2]) = l
      BY <2>1, <2>8, <3>2 DEF Sized
    <3> QED
      BY <1>0, <1>1, <2>1, <2>6, <3>3
  <2>10. Behind(rest, Len(F)) \o more = X /\ \A k \in 1..Len(F) : rest[k] = F[k]
    BY <1>1, <2>4, <2>6, <2>7, <2>9, CutFront
  <2>11. Behind(rest, Len(F)) = Behind(buf, last)
    <3> DEFINE s == Behind(rest, Len(F))
               t == Behind(buf, last)
               n == Len(F)
    <3>1. n \in 0..Len(rest) /\ last \in 0..Len(buf) /\ n = (last + 1) - i
      <4> HIDE DEF l
      <4> QED
        BY <1>0, <2>1, <2>9
    <3>2. /\ s \in Seq(Byte) /\ Len(s) = Len(rest) - n
          /\ \A j \in 1..(Len(rest) - n) : s[j] = rest[n + j]
      <4>1. rest \in Seq(Byte) /\ n \in 0..Len(rest)
        BY <1>1, <3>1
      <4>2. \A k \in 0..Len(rest) :
               /\ Behind(rest, k) \in Seq(Byte) /\ Len(Behind(rest, k)) = Len(rest) - k
               /\ \A j \in 1..(Len(rest) - k) : Behind(rest, k)[j] = rest[k + j]
        <5>1. rest \in Seq(Byte)
          BY <1>1
        <5> QED
          BY <5>1, BehindIs
      <4> QED
        BY <4>1, <4>2, Zenon
    <3>3. /\ t \in Seq(Byte) /\ Len(t) = Len(buf) - last
          /\ \A j \in 1..(Len(buf) - last) : t[j] = buf[last + j]
      BY <3>1, BehindIs
    <3> HIDE DEF s, t, n, last
    <3>4. Len(s) = Len(t) /\ Len(rest) - n = Len(buf) - last
      BY <1>0, <1>1, <3>1, <3>2, <3>3
    <3>5. ASSUME NEW j \in 1..Len(s) PROVE s[j] = t[j]
      <4>1. j \in 1..(Len(rest) - n) /\ j \in 1..(Len(buf) - last)
        BY <3>2, <3>4
      <4>2. n + j \in 1..(Len(buf) + 1 - i) /\ i + (n + j) - 1 = last + j
        BY <1>0, <1>1, <3>1, <4>1
      <4>3. rest[n + j] = buf[last + j]
        BY <1>1, <4>2
      <4> QED
        BY <3>2, <3>3, <4>1, <4>3
    <3>6. s = t
      BY <3>2, <3>3, <3>4, <3>5, SeqEqual
    <3> QED
      BY <3>6 DEF s, t, n
  <2>12. b = g[2]
    <3> DEFINE m == g[2]
    <3>1. m \in Seq(Byte) /\ Len(m) = l
      BY <2>5, <2>9
    <3>2. /\ b \in Seq(Byte) /\ Len(b) = l
          /\ \A k \in 1..l : b[k] = buf[first + k - 1]
      <4> HIDE DEF l
      <4>1. \A k \in first..last : buf[k] \in Byte
        BY <1>0, <2>1
      <4>2. first \in Int /\ last \in Int /\ last - first + 1 = l /\ (first <= last \/ l = 0)
        BY <1>0, <2>1
      <4> HIDE DEF first, last
      <4> QED
        BY <2>1, <4>1, <4>2, SubSeqProperties
    <3>3. \A k \in 1..l : m[k] = F[kHeaderLen + k]
      <4>1. m = SubSeq(F, kHeaderLen + 1, kHeaderLen + l)
        BY <2>6, <2>9
      <4> HIDE DEF m, l
      <4>2. \A k \in (kHeaderLen + 1)..(kHeaderLen + l) : F[k] \in Byte
        BY <1>0, <2>1, <2>6, <2>9
      <4>3. \A k \in 1..((kHeaderLen + l) - (kHeaderLen + 1) + 1) :
               m[k] = F[(kHeaderLen + 1) + k - 1]
        <5>1. kHeaderLen + 1 \in Int /\ kHeaderLen + l \in Int
          BY <1>0, <2>1
        <5> QED
          BY <4>1, <4>2, <5>1, SubSeqProperties
      <4> QED
        BY <1>0, <2>1, <4>3
    <3> HIDE DEF m, l, b
    <3>4. ASSUME NEW k \in 1..l PROVE b[k] = m[k]
      <4>1. /\ kHeaderLen + k \in 1..Len(F) /\ kHeaderLen + k \in 1..(Len(buf) + 1 - i)
            /\ i + (kHeaderLen + k) - 1 = first + k - 1
        BY <1>0, <1>1, <2>1, <2>9
      <4>2. rest[kHeaderLen + k] = F[kHeaderLen + k]
        BY <2>10, <4>1
      <4>3. rest[kHeaderLen + k] = buf[first + k - 1]
        BY <1>1, <4>1
      <4> QED
        BY <3>2, <3>3, <4>2, <4>3
    <3>5. b = m
      BY <3>1, <3>2, <3>4, SeqEqual
    <3> QED
      BY <3>5 DEF m
  <2>13. Exact(r, gs, more) /\ r \in Parsed
    <3> HIDE DEF last
    <3>1. last + 1 > i /\ r \in Parsed
      BY <2>1
    <3>2. SubSeq(buf, last + 1, Len(buf)) \o more = Stream(gs)
      BY <2>10, <2>11 DEF Behind, X
    <3>3. 1 \in 0..Len(fs) /\ Len(fs) - 1 \in Nat
      BY <2>3
    <3>4. Len(gs) = Len(fs) - 1 /\ \A j \in 1..(Len(fs) - 1) : gs[j] = fs[1 + j]
      BY <3>3, BehindIs
    <3>5. \A j \in 1..Len(gs) : Sized(gs[j])
      <4> HIDE DEF gs
      <4>1. \A j \in 1..(Len(fs) - 1) : 1 + j \in 1..Len(fs)
        BY <3>3
      <4> QED
        BY <3>4, <4>1
    <3> HIDE DEF gs
    <3> QED
      BY <2>1, <2>4, <3>1, <3>2, <3>5
  <2>14. ParseAt(buf, f, i) = [r EXCEPT !.messages = <<b>> \o @]
    BY <1>4, Zenon DEF ParseAt
  <2> DEFINE p == [r EXCEPT !.messages = <<b>> \o @]
             n == Len(r.messages)
  <2>15. /\ p.messages = <<b>> \o r.messages /\ p.rest = r.rest
         /\ r.messages \in Seq(Seq(Byte)) /\ r.rest \in Seq(Byte) /\ n \in Nat
    <3> HIDE DEF r, b
    <3> QED
      BY <2>13 DEF Parsed
  <2>16. b \in Seq(Byte)
    BY <2>5, <2>12
  <2> HIDE DEF p, r, b
  <2>17. /\ Len(p.messages) = n + 1 /\ p.messages[1] = b
         /\ \A j \in 1..n : p.messages[j + 1] = r.messages[j]
    <3>1. <<b>> \in Seq(Seq(Byte)) /\ Len(<<b>>) = 1
      BY <2>16
    <3> QED
      BY <2>15, <2>16, <3>1
  <2>18. 1 \in 0..Len(fs) /\ Len(fs) \in Nat
    BY <2>3
  <2>19. Len(gs) = Len(fs) - 1 /\ \A j \in 1..(Len(fs) - 1) : gs[j] = fs[1 + j]
    BY <2>18, BehindIs
  <2> HIDE DEF gs, n
  <2>20. /\ n <= Len(gs) /\ \A j \in 1..n : Acceptable(gs[j][1]) /\ r.messages[j] = gs[j][2]
         /\ r.rest \o more = Stream(Behind(gs, n))
    BY <2>13 DEF Exact, n
  <2>21. Behind(gs, n) = Behind(fs, n + 1)
    <3> DEFINE s == Behind(gs, n)
               t == Behind(fs, n + 1)
    <3>1. n \in 0..Len(gs) /\ n + 1 \in 0..Len(fs)
      BY <2>15, <2>18, <2>19, <2>20
    <3>2. /\ s \in Seq(Frame) /\ Len(s) = Len(gs) - n
          /\ \A j \in 1..(Len(gs) - n) : s[j] = gs[n + j]
      BY <2>4, <3>1, BehindIs
    <3>3. /\ t \in Seq(Frame) /\ Len(t) = Len(fs) - (n + 1)
          /\ \A j \in 1..(Len(fs) - (n + 1)) : t[j] = fs[(n + 1) + j]
      BY <3>1, BehindIs
    <3> HIDE DEF s, t
    <3>4. Len(s) = Len(t)
      BY <2>15, <2>18, <2>19, <3>2, <3>3
    <3>5. ASSUME NEW j \in 1..Len(s) PROVE s[j] = t[j]
      <4>1. /\ j \in 1..(Len(gs) - n) /\ j \in 1..(Len(fs) - (n + 1))
            /\ n + j \in 1..(Len(fs) - 1) /\ 1 + (n + j) = (n + 1) + j
        BY <2>15, <2>18, <2>19, <3>1, <3>2, <3>3, <3>4
      <4> QED
        BY <2>19, <3>2, <3>3, <4>1
    <3>6. s = t
      BY <3>2, <3>3, <3>4, <3>5, SeqEqual
    <3> QED
      BY <3>6 DEF s, t
  <2>22. ASSUME NEW j \in 1..(n + 1)
         PROVE  Acceptable(fs[j][1]) /\ p.messages[j] = fs[j][2]
    <3>1. CASE j = 1
      BY <1>4, <2>8, <2>12, <2>17, <3>1 DEF b
    <3>2. CASE j # 1
      <4>1. j - 1 \in 1..n /\ (j - 1) + 1 = j /\ 1 + (j - 1) = j /\ j - 1 \in 1..(Len(fs) - 1)
        BY <2>15, <2>18, <2>19, <2>20, <3>2
      <4>2. p.messages[j] = r.messages[j - 1]
        BY <2>17, <4>1
      <4>3. gs[j - 1] = fs[j]
        BY <2>19, <4>1
      <4> QED
        BY <2>20, <4>1, <4>2, <4>3
    <3> QED
      BY <3>1, <3>2
  <2>23. n + 1 <= Len(fs)
    BY <2>15, <2>18, <2>19, <2>20
  <2>24. Exact(p, fs, more)
    BY <2>15, <2>17, <2>20, <2>21, <2>22, <2>23 DEF Exact
  <2> QED
    BY <2>14, <2>24 DEF p
<1>5. \/ first > Len(buf) + 1 \/ ~Acceptable(l) \/ last > Len(buf)
      \/ ~(first > Len(buf) + 1) /\ Acceptable(l) /\ ~(last > Len(buf))
  OBVIOUS
<1> QED
  BY <1>3, <1>4, <1>5

(***************************************************************************)
(* Wherever a stream of frames is cut, onMessage() finds its messages in   *)
(* what has arrived and leaves what follows them in the buffer.            *)
(***************************************************************************)
LEMMA CodecExact ==
    ASSUME NEW buf \in Seq(Byte), NEW more \in Seq(Byte), NEW fs \in Seq(Frame),
           \A k \in 1..Len(fs) : Sized(fs[k]), buf \o more = Stream(fs)
    PROVE  Parse(buf) \in Parsed /\ Exact(Parse(buf), fs, more)
<1> DEFINE N == Len(buf) + 1
<1>0. N \in Nat /\ 1 \in 1..N
  OBVIOUS
<1>1. PICK f : /\ Parse(buf) = f[1]
               /\ \A i \in 1..N : f[i] \in Parsed /\ f[i] = ParseAt(buf, f, i)
  BY ParseIs
<1> DEFINE Q(i) == \A gs \in Seq(Frame) :
                      (\A k \in 1..Len(gs) : Sized(gs[k]))
                      /\ SubSeq(buf, i, Len(buf)) \o more = Stream(gs) => Exact(f[i], gs, more)
<1>2. ASSUME NEW i \in 1..N, \A j \in 1..N : j > i => Q(j) PROVE Q(i)
  <2>1. ASSUME NEW gs \in Seq(Frame), \A k \in 1..Len(gs) : Sized(gs[k]),
               SubSeq(buf, i, Len(buf)) \o more = Stream(gs)
        PROVE  Exact(f[i], gs, more)
    <3>1. \A j \in 1..N : f[j] \in Parsed
      BY <1>1
    <3>2. Exact(ParseAt(buf, f, i), gs, more)
      BY <1>2, <2>1, <3>1, RoundExact
    <3> QED
      BY <1>1, <3>2
  <2> QED
    BY <2>1
<1>3. \A i \in 1..N : Q(i)
  <2> HIDE DEF Q
  <2> DEFINE T == {n \in Nat : n < N /\ ~Q(N - n)}
  <2>1. SUFFICES ASSUME T # {} PROVE FALSE
    <3>1. ASSUME NEW i \in 1..N, ~Q(i) PROVE FALSE
      <4>1. N - i \in Nat /\ N - i < N /\ N - (N - i) = i
        BY <1>0
      <4>2. N - i \in T
        BY <3>1, <4>1
      <4> QED
        BY <2>1, <4>2
    <3> QED
      BY <3>1
  <2>2. PICK n \in T : \A m \in T : n <= m
    <3>1. T \subseteq Nat
      OBVIOUS
    <3> QED
      BY <2>1, <3>1, LeastOf
  <2>3. N - n \in 1..N /\ n \in Nat /\ ~Q(N - n)
    BY <1>0, <2>2
  <2>4. ASSUME NEW j \in 1..N, j > N - n PROVE Q(j)
    <3>1. N - j \in Nat /\ N - j < N /\ N - (N - j) = j /\ N - j < n
      BY <1>0, <2>3, <2>4
    <3>2. N - j \notin T
      <4> HIDE DEF T
      <4> QED
        BY <2>2, <2>3, <3>1
    <3> QED
      BY <3>1, <3>2
  <2> QED
    BY <1>2, <2>3, <2>4
<1>4. SubSeq(buf, 1, Len(buf)) = buf
  BY SubSeqFull
<1> QED
  BY <1>0, <1>1, <1>3, <1>4

-----------------------------------------------------------------------------
(* ChatServer.                                                             *)

ChatType ==
    /\ connections_ \subseteq Users
    /\ state \in [Users -> {"kConnecting", "kConnected", "kDisconnecting", "kDisconnected"}]
    /\ up \in [Users -> Seq(Byte)] /\ inBuffer_ \in [Users -> Seq(Byte)]
    /\ down \in [Users -> Seq(Byte)] /\ clientBuffer \in [Users -> Seq(Byte)]
    /\ said \in [Users -> Seq(Messages)]
    /\ heard \in [Users -> Seq(Seq(Byte))] /\ taken \in [Users -> Seq(Seq(Byte))]
    /\ owed \in [Users -> Seq(Seq(Byte))]

\* What each user sent and is owed, as frames.
SaidFrames(s) == [i \in 1..Len(s) |-> <<Length[s[i]], Body(s[i])>>]
OwedFrames(s) == [i \in 1..Len(s) |-> <<Len(s[i]), s[i]>>]

\* Nothing has happened yet to a user that has not connected, and a connection
\* that takes output is in connections_.
MembersInv ==
    \A u \in Users :
        /\ state[u] = "kConnected" => u \in connections_
        /\ state[u] = "kConnecting" =>
              /\ u \notin connections_
              /\ up[u] = <<>> /\ inBuffer_[u] = <<>> /\ down[u] = <<>> /\ clientBuffer[u] = <<>>
              /\ said[u] = <<>> /\ heard[u] = <<>> /\ taken[u] = <<>> /\ owed[u] = <<>>

\* The server's buffer and the bytes on their way make up the frames that the
\* server has not taken, from the start of one on.
UpInv ==
    \A u \in connections_ :
        Arriving(SaidFrames(said[u]), Len(taken[u]), inBuffer_[u], up[u])

\* Likewise on the way back; and what is owed has a length that is allowed.
DownInv ==
    /\ \A u \in connections_ :
          Arriving(OwedFrames(owed[u]), Len(heard[u]), clientBuffer[u], down[u])
    /\ \A u \in Users : \A i \in 1..Len(owed[u]) : Acceptable(Len(owed[u][i]))

ChatInv == ChatType /\ MembersInv /\ UpInv /\ DownInv /\ MessagesFramed /\ HeardInOrder

\* A sequence is what is in front of a place and what is behind it.
LEMMA CutAt ==
    ASSUME NEW S, NEW s \in Seq(S), NEW n \in 0..Len(s)
    PROVE  SubSeq(s, 1, n) \in Seq(S) /\ Behind(s, n) \in Seq(S)
           /\ SubSeq(s, 1, n) \o Behind(s, n) = s
<1>1. n \in Nat /\ n <= Len(s) /\ Len(s) \in Nat
  OBVIOUS
<1>2. \A i \in 1..n : s[i] \in S
  BY <1>1
<1>3. SubSeq(s, 1, n) \in Seq(S)
  BY <1>1, <1>2, SubSeqProperties
<1>4. SubSeq(s, 1, n) \o SubSeq(s, n + 1, Len(s)) = SubSeq(s, 1, Len(s))
  <2>1. 1 \in 1..(Len(s) + 1) /\ n \in (1 - 1)..Len(s) /\ Len(s) \in n..Len(s)
    BY <1>1
  <2> QED
    BY <2>1, ConcatAdjacentSubSeq
<1>5. SubSeq(s, 1, Len(s)) = s
  BY SubSeqFull
<1> QED
  BY <1>3, <1>4, <1>5, BehindIs DEF Behind

\* A chunk moves from the bytes on their way to the buffer.
LEMMA ChunkMoves ==
    ASSUME NEW S, NEW a \in Seq(S), NEW s \in Seq(S), NEW n \in 0..Len(s)
    PROVE  /\ a \o SubSeq(s, 1, n) \in Seq(S)
           /\ (a \o SubSeq(s, 1, n)) \o Behind(s, n) = a \o s
<1> DEFINE x == SubSeq(s, 1, n)
           y == Behind(s, n)
<1>1. x \in Seq(S) /\ y \in Seq(S) /\ x \o y = s
  BY CutAt
<1> HIDE DEF x, y
<1>2. (a \o x) \o y = a \o (x \o y)
  <2>1. x \in Seq(S) /\ y \in Seq(S)
    BY <1>1
  <2> QED
    BY <2>1, ConcatAssociative
<1>3. a \o x \in Seq(S)
  BY <1>1, ConcatProperties
<1> QED
  BY <1>1, <1>2, <1>3 DEF x, y

\* Behind m and then n more.
LEMMA BehindBehind ==
    ASSUME NEW S, NEW fs \in Seq(S), NEW m \in 0..Len(fs), NEW n \in 0..(Len(fs) - m)
    PROVE  Behind(Behind(fs, m), n) = Behind(fs, m + n)
<1> DEFINE gs == Behind(fs, m)
           s == Behind(gs, n)
           t == Behind(fs, m + n)
<1>0. Len(fs) \in Nat /\ m \in Nat /\ n \in Nat /\ m + n \in 0..Len(fs)
  OBVIOUS
<1>1. gs \in Seq(S) /\ Len(gs) = Len(fs) - m /\ \A j \in 1..(Len(fs) - m) : gs[j] = fs[m + j]
  BY BehindIs
<1>2. t \in Seq(S) /\ Len(t) = Len(fs) - (m + n)
      /\ \A j \in 1..(Len(fs) - (m + n)) : t[j] = fs[(m + n) + j]
  BY <1>0, BehindIs
<1> HIDE DEF gs
<1>3. s \in Seq(S) /\ Len(s) = Len(gs) - n /\ \A j \in 1..(Len(gs) - n) : s[j] = gs[n + j]
  <2>1. n \in 0..Len(gs)
    BY <1>0, <1>1
  <2> QED
    BY <1>1, <2>1, BehindIs
<1> HIDE DEF s, t
<1>4. Len(s) = Len(t)
  BY <1>0, <1>1, <1>2, <1>3
<1>5. ASSUME NEW j \in 1..Len(s) PROVE s[j] = t[j]
  <2>1. /\ j \in 1..(Len(gs) - n) /\ n + j \in 1..(Len(fs) - m) /\ j \in 1..(Len(fs) - (m + n))
        /\ m + (n + j) = (m + n) + j
    BY <1>0, <1>1, <1>2, <1>3, <1>4
  <2> QED
    BY <1>1, <1>2, <1>3, <2>1
<1>6. s = t
  BY <1>2, <1>3, <1>4, <1>5, SeqEqual
<1> QED
  BY <1>6 DEF s, t, gs

\* What is appended is behind what was there.
LEMMA BehindConcat ==
    ASSUME NEW S, NEW fs \in Seq(S), NEW gs \in Seq(S), NEW n \in 0..Len(fs)
    PROVE  Behind(fs \o gs, n) = Behind(fs, n) \o gs
<1> DEFINE all == fs \o gs
           b == Behind(fs, n)
           s == Behind(all, n)
           t == b \o gs
<1>0. Len(fs) \in Nat /\ Len(gs) \in Nat /\ n \in Nat
  OBVIOUS
<1>1. all \in Seq(S) /\ Len(all) = Len(fs) + Len(gs)
      /\ \A i \in 1..(Len(fs) + Len(gs)) :
            all[i] = IF i <= Len(fs) THEN fs[i] ELSE gs[i - Len(fs)]
  BY ConcatProperties
<1>2. b \in Seq(S) /\ Len(b) = Len(fs) - n /\ \A j \in 1..(Len(fs) - n) : b[j] = fs[n + j]
  BY BehindIs
<1> HIDE DEF all, b
<1>3. s \in Seq(S) /\ Len(s) = Len(all) - n /\ \A j \in 1..(Len(all) - n) : s[j] = all[n + j]
  <2>1. n \in 0..Len(all)
    BY <1>0, <1>1
  <2> QED
    BY <1>1, <2>1, BehindIs
<1>4. t \in Seq(S) /\ Len(t) = Len(b) + Len(gs)
      /\ \A i \in 1..(Len(b) + Len(gs)) : t[i] = IF i <= Len(b) THEN b[i] ELSE gs[i - Len(b)]
  BY <1>2, ConcatProperties
<1> HIDE DEF s, t
<1>5. Len(s) = Len(t)
  BY <1>0, <1>1, <1>2, <1>3, <1>4
<1>6. ASSUME NEW j \in 1..Len(s) PROVE s[j] = t[j]
  <2>1. /\ j \in 1..(Len(all) - n) /\ n + j \in 1..(Len(fs) + Len(gs)) /\ j \in 1..(Len(b) + Len(gs))
    BY <1>0, <1>1, <1>2, <1>3, <1>4, <1>5
  <2>2. CASE j <= Len(b)
    <3>1. n + j <= Len(fs) /\ j \in 1..(Len(fs) - n)
      BY <1>0, <1>2, <2>2
    <3> QED
      BY <1>1, <1>2, <1>3, <1>4, <2>1, <2>2, <3>1
  <2>3. CASE ~(j <= Len(b))
    <3>1. ~(n + j <= Len(fs)) /\ (n + j) - Len(fs) = j - Len(b)
      BY <1>0, <1>2, <2>3
    <3> QED
      BY <1>1, <1>3, <1>4, <2>1, <2>3, <3>1
  <2> QED
    BY <2>2, <2>3
<1>7. s = t
  BY <1>3, <1>4, <1>5, <1>6, SeqEqual
<1> QED
  BY <1>7 DEF s, t, all, b

(***************************************************************************)
(* Another chunk of a stream of frames: the messages got before it and the *)
(* new ones are the first of the stream, and what is left begins behind    *)
(* them.                                                                   *)
(***************************************************************************)
LEMMA ChunkExact ==
    ASSUME NEW fs \in Seq(Frame), \A k \in 1..Len(fs) : Sized(fs[k]),
           NEW got \in Seq(Seq(Byte)), Got(fs, got),
           NEW buf \in Seq(Byte), NEW todo \in Seq(Byte), NEW n \in 0..Len(todo),
           Arriving(fs, Len(got), buf, todo),
           NEW p, p = Parse(buf \o SubSeq(todo, 1, n))
    PROVE  /\ p \in Parsed /\ got \o p.messages \in Seq(Seq(Byte))
           /\ Got(fs, got \o p.messages)
           /\ Arriving(fs, Len(got \o p.messages), p.rest, Behind(todo, n))
           /\ \A j \in 1..Len(p.messages) : Acceptable(Len(p.messages[j]))
<1> DEFINE front == SubSeq(todo, 1, n)
           more == Behind(todo, n)
           all == buf \o front
           gs == Behind(fs, Len(got))
<1>0. Len(got) \in 0..Len(fs) /\ Len(fs) \in Nat /\ Len(got) \in Nat
  BY DEF Got
<1>1. front \in Seq(Byte) /\ more \in Seq(Byte) /\ front \o more = todo
  BY CutAt
<1>2. gs \in Seq(Frame) /\ Len(gs) = Len(fs) - Len(got)
      /\ \A j \in 1..(Len(fs) - Len(got)) : gs[j] = fs[Len(got) + j]
  BY <1>0, BehindIs
<1> HIDE DEF front, more, gs
<1>3. all \in Seq(Byte) /\ all \o more = Stream(gs)
  <2>1. /\ buf \o SubSeq(todo, 1, n) \in Seq(Byte)
        /\ (buf \o SubSeq(todo, 1, n)) \o Behind(todo, n) = buf \o todo
    BY ChunkMoves
  <2> QED
    BY <2>1, Zenon DEF gs, front, more, Arriving
<1>4. ASSUME NEW j \in 1..Len(gs) PROVE Sized(gs[j])
  <2>1. j \in 1..(Len(fs) - Len(got)) /\ Len(got) + j \in 1..Len(fs)
    BY <1>0, <1>2
  <2> QED
    BY <1>2, <2>1
<1>5. p = Parse(all)
  BY DEF front
<1> HIDE DEF all
<1>6. p \in Parsed /\ Exact(p, gs, more)
  BY <1>1, <1>2, <1>3, <1>4, <1>5, CodecExact
<1> DEFINE ms == p.messages
           k == Len(ms)
           whole == got \o ms
<1>7. ms \in Seq(Seq(Byte)) /\ k \in Nat
  BY <1>6 DEF Parsed
<1>8. /\ k <= Len(gs) /\ p.rest \o more = Stream(Behind(gs, k))
      /\ \A j \in 1..k : Acceptable(gs[j][1]) /\ ms[j] = gs[j][2]
  BY <1>6 DEF Exact
<1> HIDE DEF ms
<1>9. whole \in Seq(Seq(Byte)) /\ Len(whole) = Len(got) + k
      /\ \A i \in 1..(Len(got) + k) : whole[i] = IF i <= Len(got) THEN got[i] ELSE ms[i - Len(got)]
  BY <1>7, ConcatProperties
<1> HIDE DEF whole
<1>10. Len(whole) <= Len(fs)
  BY <1>0, <1>2, <1>7, <1>8, <1>9
<1>11. ASSUME NEW i \in 1..Len(whole) PROVE Acceptable(fs[i][1]) /\ whole[i] = fs[i][2]
  <2>1. i \in 1..(Len(got) + k)
    BY <1>9
  <2>2. CASE i <= Len(got)
    <3>1. i \in 1..Len(got)
      BY <1>0, <2>1, <2>2
    <3> QED
      BY <1>9, <2>1, <2>2, <3>1 DEF Got
  <2>3. CASE ~(i <= Len(got))
    <3>1. i - Len(got) \in 1..k /\ i - Len(got) \in 1..(Len(fs) - Len(got))
          /\ Len(got) + (i - Len(got)) = i
      BY <1>0, <1>2, <1>7, <1>8, <2>1, <2>3
    <3>2. gs[i - Len(got)] = fs[i]
      BY <1>2, <3>1
    <3>3. whole[i] = ms[i - Len(got)]
      BY <1>9, <2>1, <2>3
    <3> QED
      BY <1>8, <3>1, <3>2, <3>3
  <2> QED
    BY <2>2, <2>3
<1>12. Behind(gs, k) = Behind(fs, Len(whole))
  <2>1. k \in 0..(Len(fs) - Len(got))
    BY <1>0, <1>2, <1>7, <1>8
  <2> QED
    BY <1>0, <1>9, <2>1, BehindBehind DEF gs
<1>13. ASSUME NEW j \in 1..k PROVE Acceptable(Len(ms[j]))
  <2>1. j \in 1..Len(gs)
    BY <1>0, <1>2, <1>7, <1>8
  <2>2. Acceptable(gs[j][1]) /\ ms[j] = gs[j][2] /\ Sized(gs[j])
    BY <1>4, <1>8, <2>1
  <2>3. gs[j][1] >= 0
    BY <2>2, ChatAssumption DEF Acceptable
  <2> QED
    BY <2>2, <2>3 DEF Sized
<1>14. Got(fs, whole)
  BY <1>10, <1>11 DEF Got
<1>15. p.rest \o more = Stream(Behind(fs, Len(whole)))
  BY <1>8, <1>12, Zenon
<1>16. Arriving(fs, Len(got \o p.messages), p.rest, Behind(todo, n))
  BY <1>15 DEF ms, whole, more, Arriving
<1> QED
  BY <1>6, <1>9, <1>13, <1>14, <1>16 DEF ms, whole

\* The messages of a user are frames; so are those it is owed.
LEMMA SaidFramesAre ==
    ASSUME NEW s \in Seq(Messages)
    PROVE  /\ SaidFrames(s) \in Seq(Frame) /\ Len(SaidFrames(s)) = Len(s)
           /\ \A i \in 1..Len(s) : /\ Sized(SaidFrames(s)[i])
                                   /\ SaidFrames(s)[i] = <<Length[s[i]], Body(s[i])>>
<1>1. ASSUME NEW m \in Messages
      PROVE  <<Length[m], Body(m)>> \in Frame /\ Sized(<<Length[m], Body(m)>>)
  <2> DEFINE l == Length[m]
  <2>1. l \in Int
    BY ChatAssumption
  <2> HIDE DEF l
  <2>2. \A k \in 1..l : <<"body", m, k>> \in Byte
    BY <2>1 DEF Byte
  <2>3. Body(m) = [k \in 1..l |-> <<"body", m, k>>]
    BY DEF Body, l
  <2>4. CASE l >= 0
    <3>1. Body(m) \in Seq(Byte) /\ Len(Body(m)) = l
      BY <2>1, <2>2, <2>3, <2>4
    <3> QED
      BY <2>1, <3>1 DEF Frame, Sized, l
  <2>5. CASE ~(l >= 0)
    <3>1. Body(m) = <<>>
      <4>1. 1..l = {}
        BY <2>1, <2>5
      <4> QED
        BY <2>3, <4>1
    <3>2. <<>> \in Seq(Byte)
      OBVIOUS
    <3> QED
      BY <2>1, <2>5, <3>1, <3>2 DEF Frame, Sized, l
  <2> QED
    BY <2>4, <2>5
<1>2. \A i \in 1..Len(s) : s[i] \in Messages
  OBVIOUS
<1> QED
  BY <1>1, <1>2 DEF SaidFrames

\* As above.
LEMMA OwedFramesAre ==
    ASSUME NEW s \in Seq(Seq(Byte))
    PROVE  /\ OwedFrames(s) \in Seq(Frame) /\ Len(OwedFrames(s)) = Len(s)
           /\ \A i \in 1..Len(s) : /\ Sized(OwedFrames(s)[i])
                                   /\ OwedFrames(s)[i] = <<Len(s[i]), s[i]>>
           /\ Stream(OwedFrames(s)) = FlattenSeq([i \in 1..Len(s) |-> Framed(Len(s[i]), s[i])])
<1>1. ASSUME NEW b \in Seq(Byte) PROVE <<Len(b), b>> \in Frame /\ Sized(<<Len(b), b>>)
  BY DEF Frame, Sized
<1>2. \A i \in 1..Len(s) : s[i] \in Seq(Byte)
  OBVIOUS
<1>3. OwedFrames(s) \in Seq(Frame) /\ Len(OwedFrames(s)) = Len(s)
      /\ \A i \in 1..Len(s) : OwedFrames(s)[i] = <<Len(s[i]), s[i]>>
  BY <1>1, <1>2 DEF OwedFrames
<1>4. Parts(OwedFrames(s)) = [i \in 1..Len(s) |-> Framed(Len(s[i]), s[i])]
  <2>1. \A i \in 1..Len(s) : OwedFrames(s)[i][1] = Len(s[i]) /\ OwedFrames(s)[i][2] = s[i]
    BY <1>3
  <2> QED
    BY <1>3, <2>1 DEF Parts
<1> QED
  BY <1>1, <1>2, <1>3, <1>4 DEF Stream

\* Frames are made one by one.
LEMMA FramesConcat ==
    /\ \A s \in Seq(Messages), m \in Messages :
          SaidFrames(Append(s, m)) = SaidFrames(s) \o << <<Length[m], Body(m)>> >>
    /\ \A s, t \in Seq(Seq(Byte)) : OwedFrames(s \o t) = OwedFrames(s) \o OwedFrames(t)
<1>1. ASSUME NEW s \in Seq(Messages), NEW m \in Messages
      PROVE  SaidFrames(Append(s, m)) = SaidFrames(s) \o << <<Length[m], Body(m)>> >>
  <2> DEFINE a == Append(s, m)
             x == <<Length[m], Body(m)>>
             f == SaidFrames(s)
             p == SaidFrames(a)
  <2>1. a \in Seq(Messages) /\ Len(a) = Len(s) + 1 /\ a[Len(s) + 1] = m
        /\ (\A i \in 1..Len(s) : a[i] = s[i]) /\ Len(s) \in Nat
    OBVIOUS
  <2>2. f \in Seq(Frame) /\ Len(f) = Len(s) /\ \A i \in 1..Len(s) : f[i] = <<Length[s[i]], Body(s[i])>>
    BY SaidFramesAre
  <2> HIDE DEF a, f
  <2>3. p \in Seq(Frame) /\ Len(p) = Len(s) + 1
        /\ \A i \in 1..(Len(s) + 1) : p[i] = <<Length[a[i]], Body(a[i])>>
    BY <2>1, SaidFramesAre
  <2> HIDE DEF p
  <2>4. p[Len(s) + 1] = x /\ \A i \in 1..Len(s) : p[i] = f[i]
    <3>1. Len(s) + 1 \in 1..(Len(s) + 1) /\ \A i \in 1..Len(s) : i \in 1..(Len(s) + 1)
      BY <2>1
    <3> QED
      BY <2>1, <2>2, <2>3, <3>1
  <2>5. x \in Frame
    BY <2>1, <2>3, <2>4
  <2> HIDE DEF x
  <2>6. f \in Seq(Frame) /\ Len(f) = Len(s) /\ p \in Seq(Frame) /\ Len(p) = Len(s) + 1
    BY <2>2, <2>3
  <2>7. p = f \o <<x>>
    BY <2>1, <2>4, <2>5, <2>6
  <2> QED
    BY <2>7 DEF p, f, a, x
<1>2. ASSUME NEW s \in Seq(Seq(Byte)), NEW t \in Seq(Seq(Byte))
      PROVE  OwedFrames(s \o t) = OwedFrames(s) \o OwedFrames(t)
  <2> DEFINE a == s \o t
             f == OwedFrames(s)
             g == OwedFrames(t)
             p == OwedFrames(a)
             q == f \o g
  <2>1. a \in Seq(Seq(Byte)) /\ Len(a) = Len(s) + Len(t)
        /\ \A i \in 1..(Len(s) + Len(t)) : a[i] = IF i <= Len(s) THEN s[i] ELSE t[i - Len(s)]
    BY ConcatProperties
  <2>2. f \in Seq(Frame) /\ Len(f) = Len(s) /\ \A i \in 1..Len(s) : f[i] = <<Len(s[i]), s[i]>>
    BY OwedFramesAre
  <2>3. g \in Seq(Frame) /\ Len(g) = Len(t) /\ \A i \in 1..Len(t) : g[i] = <<Len(t[i]), t[i]>>
    BY OwedFramesAre
  <2> HIDE DEF a, f, g
  <2>4. p \in Seq(Frame) /\ Len(p) = Len(a) /\ \A i \in 1..Len(a) : p[i] = <<Len(a[i]), a[i]>>
    BY <2>1, OwedFramesAre
  <2>5. q \in Seq(Frame) /\ Len(q) = Len(f) + Len(g)
        /\ \A i \in 1..(Len(f) + Len(g)) : q[i] = IF i <= Len(f) THEN f[i] ELSE g[i - Len(f)]
    <3>1. f \in Seq(Frame) /\ g \in Seq(Frame)
      BY <2>2, <2>3
    <3> QED
      BY <3>1, ConcatProperties
  <2> HIDE DEF p, q
  <2>6. Len(s) \in Nat /\ Len(t) \in Nat /\ Len(p) = Len(q)
    BY <2>1, <2>2, <2>3, <2>4, <2>5
  <2>7. ASSUME NEW i \in 1..Len(p) PROVE p[i] = q[i]
    <3>1. i \in 1..Len(a) /\ i \in 1..(Len(s) + Len(t)) /\ i \in 1..(Len(f) + Len(g))
      BY <2>1, <2>2, <2>3, <2>4, <2>6
    <3>2. CASE i <= Len(s)
      <4>1. i \in 1..Len(s)
        BY <2>6, <3>1, <3>2
      <4> QED
        BY <2>1, <2>2, <2>4, <2>5, <3>1, <3>2, <4>1
    <3>3. CASE ~(i <= Len(s))
      <4>1. i - Len(s) \in 1..Len(t)
        BY <2>6, <3>1, <3>3
      <4>2. q[i] = g[i - Len(s)] /\ a[i] = t[i - Len(s)]
        BY <2>1, <2>2, <2>5, <3>1, <3>3
      <4> QED
        BY <2>3, <2>4, <3>1, <4>1, <4>2
    <3> QED
      BY <3>2, <3>3
  <2>8. p = q
    BY <2>4, <2>5, <2>6, <2>7, SeqEqual
  <2> QED
    BY <2>8 DEF p, q, a, f, g
<1> QED
  BY <1>1, <1>2

\* Concatenation is associative.
LEMMA Associative == \A p, q, r \in Seq(Byte) : (p \o q) \o r = p \o (q \o r)
BY ConcatAssociative

\* Frames that are sent come behind the ones on their way.
LEMMA MoreArrives ==
    ASSUME NEW fs \in Seq(Frame), NEW gs \in Seq(Frame), NEW n \in 0..Len(fs),
           NEW buf \in Seq(Byte), NEW todo \in Seq(Byte),
           Arriving(fs, n, buf, todo)
    PROVE  /\ todo \o Stream(gs) \in Seq(Byte)
           /\ Arriving(fs \o gs, n, buf, todo \o Stream(gs))
<1> DEFINE b == Behind(fs, n)
           x == Stream(gs)
<1>1. b \in Seq(Frame) /\ Behind(fs \o gs, n) = b \o gs
  BY BehindIs, BehindConcat
<1> HIDE DEF b
<1>2. x \in Seq(Byte) /\ Stream(b \o gs) = Stream(b) \o x
  BY <1>1, StreamConcat
<1> HIDE DEF x
<1>3. (buf \o todo) \o x = buf \o (todo \o x) /\ todo \o x \in Seq(Byte)
  <2>1. x \in Seq(Byte)
    BY <1>2
  <2>2. (buf \o todo) \o x = buf \o (todo \o x)
    BY <2>1, Associative, Zenon
  <2>3. todo \o x \in Seq(Byte)
    BY <2>1, ConcatProperties
  <2> QED
    BY <2>2, <2>3
<1>4. buf \o todo = Stream(b)
  BY DEF b, Arriving
<1>5. buf \o (todo \o x) = Stream(Behind(fs \o gs, n))
  BY <1>1, <1>2, <1>3, <1>4, Zenon
<1> QED
  BY <1>3, <1>5 DEF x, Arriving

\* The stream of one frame.
LEMMA StreamOne ==
    ASSUME NEW f \in Frame
    PROVE  Stream(<<f>>) = Framed(f[1], f[2])
<1> DEFINE x == Framed(f[1], f[2])
<1>1. <<f>> \in Seq(Frame) /\ <<f>> # <<>> /\ <<f>>[1] = f
  OBVIOUS
<1>2. Behind(<<f>>, 1) = <<>>
  BY <1>1 DEF Behind
<1>3. x \in Seq(Byte)
  BY FramedIs DEF Frame
<1>4. Stream(<<f>>) = x \o Stream(Behind(<<f>>, 1))
  BY <1>1, StreamFirst
<1>5. Stream(<<>>) = <<>>
  BY <1>1, StreamConcat
<1> HIDE DEF x
<1>6. x \o <<>> = x
  BY <1>3, ConcatEmptySeq
<1> QED
  BY <1>2, <1>4, <1>5, <1>6, Zenon DEF x

\* A prefix, element by element.
LEMMA PrefixIs ==
    ASSUME NEW S, NEW s \in Seq(S), NEW t \in Seq(S)
    PROVE  IsPrefix(s, t) <=> (Len(s) <= Len(t) /\ \A k \in 1..Len(s) : s[k] = t[k])
BY DEF IsPrefix

\* What was taken are the first frames of what was said, ...
LEMMA TakenIs ==
    ASSUME NEW s \in Seq(Messages), NEW t \in Seq(Seq(Byte))
    PROVE  (Len(t) <= Len(s) /\ \A i \in 1..Len(t) : Proper(s[i]) /\ t[i] = Body(s[i]))
           <=> Got(SaidFrames(s), t)
<1> DEFINE f == SaidFrames(s)
<1>1. Len(f) = Len(s) /\ \A i \in 1..Len(s) : f[i] = <<Length[s[i]], Body(s[i])>>
  BY SaidFramesAre
<1> HIDE DEF f
<1>2. \A i \in 1..Len(s) : f[i][1] = Length[s[i]] /\ f[i][2] = Body(s[i])
  BY <1>1
<1>3. \A i \in 1..Len(s) : Acceptable(f[i][1]) <=> Proper(s[i])
  BY <1>2 DEF Acceptable, Proper
<1>4. Len(t) <= Len(s) => \A i \in 1..Len(t) : i \in 1..Len(s)
  OBVIOUS
<1>5. Len(t) <= Len(f) <=> Len(t) <= Len(s)
  BY <1>1
<1> QED
  BY <1>2, <1>3, <1>4, <1>5, Zenon DEF f, Got

\* ... and what was heard of what is owed.
LEMMA HeardIs ==
    ASSUME NEW h \in Seq(Seq(Byte)), NEW o \in Seq(Seq(Byte)),
           \A i \in 1..Len(o) : Acceptable(Len(o[i]))
    PROVE  IsPrefix(h, o) <=> Got(OwedFrames(o), h)
<1> DEFINE f == OwedFrames(o)
<1>1. Len(f) = Len(o) /\ \A i \in 1..Len(o) : f[i] = <<Len(o[i]), o[i]>>
  BY OwedFramesAre
<1> HIDE DEF f
<1>2. \A i \in 1..Len(o) : f[i][1] = Len(o[i]) /\ f[i][2] = o[i]
  BY <1>1
<1>3. \A i \in 1..Len(o) : Acceptable(f[i][1])
  BY <1>2
<1>4. Len(h) <= Len(o) => \A i \in 1..Len(h) : i \in 1..Len(o)
  OBVIOUS
<1>5. Len(h) <= Len(f) <=> Len(h) <= Len(o)
  BY <1>1
<1>6. IsPrefix(h, o) <=> Len(h) <= Len(o) /\ \A i \in 1..Len(h) : h[i] = o[i]
  BY PrefixIs
<1> QED
  BY <1>2, <1>3, <1>4, <1>5, <1>6, Zenon DEF f, Got

\* At the start there are no users and no bytes.
LEMMA ChatInitially == ChatInit => ChatInv
<1> SUFFICES ASSUME ChatInit PROVE ChatInv
  OBVIOUS
<1>1. <<>> \in Seq(Byte) /\ <<>> \in Seq(Messages) /\ <<>> \in Seq(Seq(Byte)) /\ Len(<<>>) = 0
      /\ 1..0 = {}
  OBVIOUS
<1>2. ChatType
  BY <1>1 DEF ChatInit, ChatType
<1>3. MembersInv
  BY DEF ChatInit, MembersInv
<1>4. UpInv
  BY DEF ChatInit, UpInv
<1>5. \A u \in Users : owed[u] = <<>> /\ heard[u] = <<>> /\ said[u] = <<>> /\ taken[u] = <<>>
  BY DEF ChatInit
<1>6. DownInv
  BY <1>1, <1>5 DEF ChatInit, DownInv
<1>7. MessagesFramed
  BY <1>1, <1>5 DEF MessagesFramed
<1>8. HeardInOrder
  BY <1>1, <1>5 DEF HeardInOrder, IsPrefix
<1> QED
  BY <1>2, <1>3, <1>4, <1>6, <1>7, <1>8 DEF ChatInv

\* onConnection() of a new connection: both streams are empty.
LEMMA OnlineSafe ==
    ASSUME NEW u \in Users, ChatInv, Online(u)
    PROVE  ChatInv'
<1> USE DEF Online
<1>1. ChatType' /\ MembersInv' /\ MessagesFramed' /\ HeardInOrder'
  <2>1. ChatType'
    BY DEF ChatInv, ChatType
  <2>2. MembersInv'
    BY DEF ChatInv, ChatType, MembersInv
  <2>3. MessagesFramed'
    BY DEF ChatInv, MessagesFramed
  <2>4. HeardInOrder'
    BY DEF ChatInv, HeardInOrder
  <2> QED
    BY <2>1, <2>2, <2>3, <2>4
<1>2. /\ up[u] = <<>> /\ inBuffer_[u] = <<>> /\ down[u] = <<>> /\ clientBuffer[u] = <<>>
      /\ said[u] = <<>> /\ heard[u] = <<>> /\ taken[u] = <<>> /\ owed[u] = <<>>
  BY DEF ChatInv, MembersInv
<1>3. /\ Arriving(SaidFrames(<<>>), Len(<<>>), <<>>, <<>>)
      /\ Arriving(OwedFrames(<<>>), Len(<<>>), <<>>, <<>>)
  <2>1. <<>> \in Seq(Frame) /\ Len(<<>>) = 0 /\ <<>> \in Seq(Byte)
    OBVIOUS
  <2>2. SaidFrames(<<>>) = <<>> /\ OwedFrames(<<>>) = <<>>
    BY DEF SaidFrames, OwedFrames
  <2>3. Behind(<<>>, 0) = <<>>
    BY DEF Behind
  <2>4. Stream(<<>>) = <<>> /\ <<>> \o <<>> = <<>>
    BY <2>1, StreamConcat, ConcatEmptySeq
  <2> QED
    BY <2>1, <2>2, <2>3, <2>4 DEF Arriving
<1>4. UpInv'
  BY <1>2, <1>3 DEF ChatInv, UpInv
<1>5. DownInv'
  BY <1>2, <1>3 DEF ChatInv, DownInv
<1> QED
  BY <1>1, <1>4, <1>5 DEF ChatInv

\* onConnection() of one that ended: its streams are nobody's any more.
LEMMA OfflineSafe ==
    ASSUME NEW u \in Users, ChatInv, Offline(u)
    PROVE  ChatInv'
<1> USE DEF Offline
<1>1. <<>> \in Seq(Byte)
  OBVIOUS
<1>2. ChatType'
  BY <1>1 DEF ChatInv, ChatType
<1>3. MembersInv'
  BY DEF ChatInv, ChatType, MembersInv
<1>4. MessagesFramed'
  BY DEF ChatInv, MessagesFramed
<1>5. HeardInOrder'
  BY DEF ChatInv, HeardInOrder
<1>6. \A v \in connections_' : v \in connections_ /\ up'[v] = up[v] /\ down'[v] = down[v]
  BY DEF ChatInv, ChatType
<1>7. UpInv'
  BY <1>6 DEF ChatInv, UpInv
<1>8. DownInv'
  BY <1>6 DEF ChatInv, DownInv
<1> QED
  BY <1>2, <1>3, <1>4, <1>5, <1>7, <1>8 DEF ChatInv

\* A user says something: one more frame behind the others.
LEMMA SaysSafe ==
    ASSUME NEW u \in Users, NEW m \in Messages, ChatInv, Says(u, m)
    PROVE  ChatInv'
<1> USE DEF Says
<1> DEFINE s == said[u]
           x == <<Length[m], Body(m)>>
           b == Framed(Length[m], Body(m))
           f == SaidFrames(s)
<1>1. /\ s \in Seq(Messages) /\ said' = [said EXCEPT ![u] = Append(s, m)]
      /\ up' = [up EXCEPT ![u] = up[u] \o b] /\ u \in connections_
      /\ taken[u] \in Seq(Seq(Byte)) /\ inBuffer_[u] \in Seq(Byte) /\ up[u] \in Seq(Byte)
      /\ said'[u] = Append(s, m) /\ up'[u] = up[u] \o b
  BY DEF ChatInv, ChatType
<1>2. Append(s, m) \in Seq(Messages) /\ Len(Append(s, m)) = Len(s) + 1 /\ Len(s) \in Nat
      /\ \A i \in 1..Len(s) : Append(s, m)[i] = s[i]
  BY <1>1
<1>3. x \in Frame
  <2>1. <<m>> \in Seq(Messages) /\ Len(<<m>>) = 1 /\ <<m>>[1] = m
    OBVIOUS
  <2>2. SaidFrames(<<m>>) \in Seq(Frame) /\ Len(SaidFrames(<<m>>)) = 1 /\ SaidFrames(<<m>>)[1] = x
    BY <2>1, SaidFramesAre
  <2> QED
    BY <2>2
<1>4. Stream(<<x>>) = b /\ <<x>> \in Seq(Frame)
  BY <1>3, StreamOne
<1>5. f \in Seq(Frame) /\ Len(f) = Len(s) /\ SaidFrames(Append(s, m)) = f \o <<x>>
  BY <1>1, SaidFramesAre, FramesConcat
<1>6. Len(taken[u]) \in 0..Len(s)
      /\ \A i \in 1..Len(taken[u]) : Proper(s[i]) /\ taken[u][i] = Body(s[i])
  BY <1>1 DEF ChatInv, MessagesFramed
<1> HIDE DEF s, x, b, f
<1>7. up[u] \o b \in Seq(Byte)
      /\ Arriving(f \o <<x>>, Len(taken[u]), inBuffer_[u], up[u] \o b)
  <2>1. Arriving(f, Len(taken[u]), inBuffer_[u], up[u])
    BY <1>1 DEF ChatInv, UpInv, f, s
  <2>2. Len(taken[u]) \in 0..Len(f) /\ inBuffer_[u] \in Seq(Byte) /\ up[u] \in Seq(Byte)
        /\ f \in Seq(Frame) /\ <<x>> \in Seq(Frame)
    BY <1>1, <1>4, <1>5, <1>6
  <2>3. up[u] \o Stream(<<x>>) \in Seq(Byte)
        /\ Arriving(f \o <<x>>, Len(taken[u]), inBuffer_[u], up[u] \o Stream(<<x>>))
    BY <2>1, <2>2, MoreArrives, Zenon
  <2> QED
    BY <1>4, <2>3, Zenon
<1>8. ChatType'
  <2>1. ChatType /\ UNCHANGED <<connections_, state, inBuffer_, down, clientBuffer, heard, taken, owed>>
    BY DEF ChatInv
  <2>2. said' \in [Users -> Seq(Messages)]
    BY <1>1, <1>2, <2>1 DEF ChatType
  <2>3. up' \in [Users -> Seq(Byte)]
    BY <1>1, <1>7, <2>1 DEF ChatType
  <2> HIDE DEF Says
  <2> QED
    BY <2>1, <2>2, <2>3 DEF ChatType
<1>9. MembersInv'
  BY <1>1 DEF ChatInv, MembersInv, ChatType
<1>10. UpInv'
  <2>1. Arriving(SaidFrames(said'[u]), Len(taken[u]), inBuffer_[u], up'[u])
    BY <1>1, <1>5, <1>7, Zenon
  <2>2. ASSUME NEW v \in connections_, v # u
        PROVE  Arriving(SaidFrames(said'[v]), Len(taken[v]), inBuffer_[v], up'[v])
    <3>1. up'[v] = up[v] /\ said'[v] = said[v]
      BY <1>1, <2>2 DEF ChatInv, ChatType
    <3> QED
      BY <3>1 DEF ChatInv, UpInv
  <2> QED
    BY <2>1, <2>2 DEF UpInv
<1>11. DownInv'
  BY DEF ChatInv, DownInv
<1>12. MessagesFramed'
  <2>1. ASSUME NEW v \in Users
        PROVE  Len(taken[v]) <= Len(said'[v])
               /\ \A i \in 1..Len(taken[v]) : Proper(said'[v][i]) /\ taken[v][i] = Body(said'[v][i])
    <3>1. CASE v = u
      <4>1. Len(taken[u]) <= Len(said'[u]) /\ \A i \in 1..Len(taken[u]) : said'[u][i] = s[i]
        <5>1. Len(taken[u]) <= Len(s) /\ \A i \in 1..Len(taken[u]) : i \in 1..Len(s)
          BY <1>2, <1>6
        <5>2. said'[u] = Append(s, m) /\ Len(taken[u]) <= Len(Append(s, m))
          BY <1>1, <1>2, <1>6
        <5> QED
          BY <1>2, <5>1, <5>2, Zenon
      <4> QED
        BY <1>6, <3>1, <4>1
    <3>2. CASE v # u
      <4>1. said'[v] = said[v]
        BY <1>1, <3>2 DEF ChatInv, ChatType
      <4> QED
        BY <4>1 DEF ChatInv, MessagesFramed
    <3> QED
      BY <3>1, <3>2
  <2>2. taken' = taken
    OBVIOUS
  <2> QED
    BY <2>1, <2>2 DEF MessagesFramed, Proper
<1>13. HeardInOrder'
  BY DEF ChatInv, HeardInOrder
<1> QED
  BY <1>8, <1>9, <1>10, <1>11, <1>12, <1>13 DEF ChatInv

\* A user reads a chunk of what it is owed.
LEMMA UserReadsSafe ==
    ASSUME NEW u \in Users, NEW n \in 1..Len(down[u]), ChatInv, UserReads(u, n)
    PROVE  ChatInv'
<1> DEFINE buf == clientBuffer[u]
           todo == down[u]
           got == heard[u]
           o == owed[u]
           f == OwedFrames(o)
           p == Parse(buf \o SubSeq(todo, 1, n))
           ms == p.messages
<1>1. /\ down' = [down EXCEPT ![u] = Behind(todo, n)]
      /\ clientBuffer' = [clientBuffer EXCEPT ![u] = p.rest]
      /\ heard' = [heard EXCEPT ![u] = got \o ms]
      /\ u \in connections_
      /\ UNCHANGED <<connections_, state, up, inBuffer_, said, taken, owed>>
  BY DEF UserReads, Behind
<1>2. /\ buf \in Seq(Byte) /\ todo \in Seq(Byte) /\ got \in Seq(Seq(Byte)) /\ o \in Seq(Seq(Byte))
      /\ n \in 0..Len(todo)
  BY DEF ChatInv, ChatType
<1>3. \A i \in 1..Len(o) : Acceptable(Len(o[i]))
  BY DEF ChatInv, DownInv
<1>4. f \in Seq(Frame) /\ \A k \in 1..Len(f) : Sized(f[k])
  BY <1>2, OwedFramesAre
<1>5. Got(f, got)
  <2>1. IsPrefix(got, o)
    BY DEF ChatInv, HeardInOrder
  <2> HIDE DEF f, got, o
  <2> QED
    BY <1>2, <1>3, <2>1, HeardIs DEF f
<1>6. Arriving(f, Len(got), buf, todo)
  BY <1>1 DEF ChatInv, DownInv
<1> HIDE DEF buf, todo, got, f, p
<1>7. /\ p \in Parsed /\ got \o p.messages \in Seq(Seq(Byte))
      /\ Got(f, got \o p.messages)
      /\ Arriving(f, Len(got \o p.messages), p.rest, Behind(todo, n))
  <2>1. p = Parse(buf \o SubSeq(todo, 1, n))
    BY DEF p
  <2> QED
    BY <1>2, <1>4, <1>5, <1>6, <2>1, ChunkExact, Zenon
<1>8. p.rest \in Seq(Byte) /\ Behind(todo, n) \in Seq(Byte) /\ got \o ms \in Seq(Seq(Byte))
  BY <1>2, <1>7, BehindIs DEF Parsed
<1> HIDE DEF ms
<1>9. /\ down'[u] = Behind(todo, n) /\ clientBuffer'[u] = p.rest /\ heard'[u] = got \o ms
      /\ \A v \in Users \ {u} :
            down'[v] = down[v] /\ clientBuffer'[v] = clientBuffer[v] /\ heard'[v] = heard[v]
  BY <1>1 DEF ChatInv, ChatType
<1>10. ChatType'
  BY <1>1, <1>8 DEF ChatInv, ChatType
<1>11. MembersInv'
  BY <1>1, <1>9 DEF ChatInv, MembersInv
<1>12. UpInv'
  BY <1>1 DEF ChatInv, UpInv
<1>13. DownInv'
  <2>1. Arriving(OwedFrames(owed'[u]), Len(heard'[u]), clientBuffer'[u], down'[u])
    BY <1>1, <1>7, <1>9 DEF ms, f
  <2>2. ASSUME NEW v \in connections_, v # u
        PROVE  Arriving(OwedFrames(owed'[v]), Len(heard'[v]), clientBuffer'[v], down'[v])
    <3>1. v \in Users
      BY DEF ChatInv, ChatType
    <3> QED
      BY <1>1, <1>9, <2>2, <3>1 DEF ChatInv, DownInv
  <2>3. \A v \in Users : \A i \in 1..Len(owed'[v]) : Acceptable(Len(owed'[v][i]))
    BY <1>1 DEF ChatInv, DownInv
  <2>4. connections_' = connections_
    BY <1>1
  <2> QED
    BY <2>1, <2>2, <2>3, <2>4 DEF DownInv, Acceptable
<1>14. MessagesFramed'
  BY <1>1 DEF ChatInv, MessagesFramed
<1>15. HeardInOrder'
  <2>1. IsPrefix(got \o ms, o)
    BY <1>2, <1>3, <1>7, <1>8, HeardIs DEF f, ms
  <2>2. ASSUME NEW v \in Users PROVE IsPrefix(heard'[v], owed'[v])
    <3>1. CASE v = u
      BY <1>1, <1>9, <2>1, <3>1
    <3>2. CASE v # u
      BY <1>1, <1>9, <3>2 DEF ChatInv, HeardInOrder
    <3> QED
      BY <3>1, <3>2
  <2> QED
    BY <2>2 DEF HeardInOrder
<1> QED
  BY <1>10, <1>11, <1>12, <1>13, <1>14, <1>15 DEF ChatInv

\* More is owed: whole messages of lengths that are allowed come behind the
\* others, and so do their bytes.
LEMMA MoreOwed ==
    ASSUME NEW h \in Seq(Seq(Byte)), NEW o \in Seq(Seq(Byte)), NEW ms \in Seq(Seq(Byte)),
           \A i \in 1..Len(o) : Acceptable(Len(o[i])),
           \A j \in 1..Len(ms) : Acceptable(Len(ms[j])),
           IsPrefix(h, o)
    PROVE  /\ o \o ms \in Seq(Seq(Byte))
           /\ \A i \in 1..Len(o \o ms) : Acceptable(Len((o \o ms)[i]))
           /\ IsPrefix(h, o \o ms)
<1> DEFINE q == o \o ms
<1>1. q \in Seq(Seq(Byte)) /\ Len(q) = Len(o) + Len(ms) /\ Len(o) \in Nat /\ Len(ms) \in Nat
      /\ \A i \in 1..(Len(o) + Len(ms)) : q[i] = IF i <= Len(o) THEN o[i] ELSE ms[i - Len(o)]
  BY ConcatProperties
<1> HIDE DEF q
<1>2. ASSUME NEW i \in 1..Len(q) PROVE Acceptable(Len(q[i]))
  <2>1. CASE i <= Len(o)
    <3>1. i \in 1..Len(o) /\ q[i] = o[i]
      BY <1>1, <2>1
    <3> QED
      BY <3>1
  <2>2. CASE ~(i <= Len(o))
    <3>1. i - Len(o) \in 1..Len(ms) /\ q[i] = ms[i - Len(o)]
      BY <1>1, <2>2
    <3> QED
      BY <3>1
  <2> QED
    BY <2>1, <2>2
<1>3. IsPrefix(h, q)
  <2>1. Len(h) <= Len(o) /\ \A k \in 1..Len(h) : h[k] = o[k]
    BY PrefixIs
  <2>2. Len(h) <= Len(q) /\ \A k \in 1..Len(h) : h[k] = q[k]
    <3>1. Len(h) <= Len(q) /\ \A k \in 1..Len(h) : k \in 1..(Len(o) + Len(ms)) /\ k <= Len(o)
      BY <1>1, <2>1
    <3> QED
      BY <1>1, <2>1, <3>1
  <2> QED
    BY <1>1, <2>2, PrefixIs
<1> QED
  BY <1>1, <1>2, <1>3 DEF q

(***************************************************************************)
(* The server reads a chunk of u: what it takes are whole messages, and    *)
(* everybody it owes them to gets their frames behind the others.          *)
(***************************************************************************)
LEMMA ServerReadsSafe ==
    ASSUME NEW u \in Users, NEW n \in 1..Len(up[u]), ChatInv, ServerReads(u, n)
    PROVE  ChatInv'
<1> DEFINE buf == inBuffer_[u]
           todo == up[u]
           got == taken[u]
           s == said[u]
           f == SaidFrames(s)
           p == Parse(buf \o SubSeq(todo, 1, n))
           ms == p.messages
           sent == FlattenSeq([i \in 1..Len(ms) |-> Framed(Len(ms[i]), ms[i])])
           takers == {v \in Users : state[v] = "kConnected"}
<1>0. connections_ \subseteq Users /\ \A v \in takers : v \in connections_
  BY DEF ChatInv, ChatType, MembersInv
<1>1. /\ up' = [up EXCEPT ![u] = Behind(todo, n)]
      /\ inBuffer_' = [inBuffer_ EXCEPT ![u] = p.rest]
      /\ taken' = [taken EXCEPT ![u] = got \o ms]
      /\ down' = [v \in Users |-> IF v \in takers \ {u} THEN down[v] \o sent ELSE down[v]]
      /\ owed' = [v \in Users |-> IF v \in takers \ {u} THEN owed[v] \o ms ELSE owed[v]]
      /\ state' = IF p.bad /\ u \in takers THEN [state EXCEPT ![u] = "kDisconnecting"] ELSE state
      /\ u \in connections_
      /\ UNCHANGED <<connections_, clientBuffer, said, heard>>
  <2>1. Audience(u) \cap takers = takers \ {u}
    BY <1>0 DEF Audience
  <2> QED
    BY <2>1 DEF ServerReads, Behind
<1>2. /\ buf \in Seq(Byte) /\ todo \in Seq(Byte) /\ got \in Seq(Seq(Byte)) /\ s \in Seq(Messages)
      /\ n \in 0..Len(todo)
  BY DEF ChatInv, ChatType
<1>3. f \in Seq(Frame) /\ \A k \in 1..Len(f) : Sized(f[k])
  BY <1>2, SaidFramesAre
<1>4. Got(f, got)
  <2>1. Len(got) <= Len(s) /\ \A i \in 1..Len(got) : Proper(s[i]) /\ got[i] = Body(s[i])
    BY DEF ChatInv, MessagesFramed
  <2> HIDE DEF f, got, s
  <2> QED
    BY <1>2, <2>1, TakenIs DEF f
<1>5. Arriving(f, Len(got), buf, todo)
  BY <1>1 DEF ChatInv, UpInv
<1> HIDE DEF buf, todo, got, f, p, sent, takers
<1>6. /\ p \in Parsed /\ got \o p.messages \in Seq(Seq(Byte))
      /\ Got(f, got \o p.messages)
      /\ Arriving(f, Len(got \o p.messages), p.rest, Behind(todo, n))
      /\ \A j \in 1..Len(p.messages) : Acceptable(Len(p.messages[j]))
  <2>1. p = Parse(buf \o SubSeq(todo, 1, n))
    BY DEF p
  <2> QED
    BY <1>2, <1>3, <1>4, <1>5, <2>1, ChunkExact, Zenon
<1>7. /\ p.rest \in Seq(Byte) /\ Behind(todo, n) \in Seq(Byte) /\ got \o ms \in Seq(Seq(Byte))
      /\ ms \in Seq(Seq(Byte)) /\ \A j \in 1..Len(ms) : Acceptable(Len(ms[j]))
  BY <1>2, <1>6, BehindIs DEF Parsed
<1>8. OwedFrames(ms) \in Seq(Frame) /\ Stream(OwedFrames(ms)) = sent
  BY <1>7, OwedFramesAre DEF sent
<1>9. /\ up'[u] = Behind(todo, n) /\ inBuffer_'[u] = p.rest /\ taken'[u] = got \o ms
      /\ \A v \in Users \ {u} :
            up'[v] = up[v] /\ inBuffer_'[v] = inBuffer_[v] /\ taken'[v] = taken[v]
  BY <1>1 DEF ChatInv, ChatType
<1>10. /\ \A v \in takers \ {u} : down'[v] = down[v] \o sent /\ owed'[v] = owed[v] \o ms
       /\ \A v \in Users : v \notin takers \ {u} => down'[v] = down[v] /\ owed'[v] = owed[v]
  BY <1>1 DEF takers
<1> HIDE DEF ms
\* One more message or not, what everybody is owed stays in order.
<1>11. ASSUME NEW v \in Users
       PROVE  /\ owed'[v] \in Seq(Seq(Byte)) /\ down'[v] \in Seq(Byte)
              /\ \A i \in 1..Len(owed'[v]) : Acceptable(Len(owed'[v][i]))
              /\ IsPrefix(heard[v], owed'[v])
              /\ v \in connections_ =>
                    Arriving(OwedFrames(owed'[v]), Len(heard[v]), clientBuffer[v], down'[v])
  <2> DEFINE h == heard[v]
             o == owed[v]
             b == clientBuffer[v]
             d == down[v]
             g == OwedFrames(o)
  <2>1. /\ h \in Seq(Seq(Byte)) /\ o \in Seq(Seq(Byte)) /\ b \in Seq(Byte) /\ d \in Seq(Byte)
        /\ \A i \in 1..Len(o) : Acceptable(Len(o[i]))
        /\ IsPrefix(h, o)
        /\ v \in connections_ => Arriving(g, Len(h), b, d)
    BY DEF ChatInv, ChatType, DownInv, HeardInOrder
  <2> HIDE DEF h, o, b, d, g
  <2>2. CASE v \in takers \ {u}
    <3>1. v \in connections_ /\ down'[v] = d \o sent /\ owed'[v] = o \o ms
      BY <1>0, <1>10, <2>2 DEF d, o
    <3>2. /\ o \o ms \in Seq(Seq(Byte))
          /\ \A i \in 1..Len(o \o ms) : Acceptable(Len((o \o ms)[i]))
          /\ IsPrefix(h, o \o ms)
      BY <1>7, <2>1, MoreOwed, Zenon
    <3>3. g \in Seq(Frame) /\ OwedFrames(o \o ms) = g \o OwedFrames(ms) /\ Len(h) \in 0..Len(g)
      <4>1. g \in Seq(Frame) /\ OwedFrames(o \o ms) = g \o OwedFrames(ms) /\ Len(g) = Len(o)
        BY <1>7, <2>1, OwedFramesAre, FramesConcat DEF g
      <4>2. Len(h) <= Len(o)
        BY <2>1, PrefixIs
      <4> QED
        BY <2>1, <4>1, <4>2
    <3>4. d \o Stream(OwedFrames(ms)) \in Seq(Byte)
          /\ Arriving(g \o OwedFrames(ms), Len(h), b, d \o Stream(OwedFrames(ms)))
      BY <1>8, <2>1, <3>1, <3>3, MoreArrives, Zenon
    <3>5. d \o sent \in Seq(Byte) /\ Arriving(OwedFrames(o \o ms), Len(h), b, d \o sent)
      BY <1>8, <3>3, <3>4, Zenon
    <3> QED
      BY <3>1, <3>2, <3>5 DEF h, b
  <2>3. CASE v \notin takers \ {u}
    <3>1. down'[v] = d /\ owed'[v] = o
      BY <1>10, <2>3 DEF d, o
    <3> QED
      BY <2>1, <3>1 DEF h, b, g
  <2> QED
    BY <2>2, <2>3
<1>12. ChatType'
  <2>1. state' \in [Users -> {"kConnecting", "kConnected", "kDisconnecting", "kDisconnected"}]
    BY <1>1 DEF ChatInv, ChatType
  <2>2. /\ up' \in [Users -> Seq(Byte)] /\ inBuffer_' \in [Users -> Seq(Byte)]
        /\ taken' \in [Users -> Seq(Seq(Byte))]
    BY <1>1, <1>7 DEF ChatInv, ChatType
  <2>3. down' \in [Users -> Seq(Byte)] /\ owed' \in [Users -> Seq(Seq(Byte))]
    BY <1>1, <1>11
  <2> QED
    BY <1>1, <2>1, <2>2, <2>3 DEF ChatInv, ChatType
<1>13. MembersInv'
  <2>1. ASSUME NEW v \in Users, state'[v] = "kConnected" PROVE v \in connections_'
    BY <1>1, <2>1 DEF ChatInv, ChatType, MembersInv
  <2>2. ASSUME NEW v \in Users, state'[v] = "kConnecting"
        PROVE  /\ v \notin connections_'
               /\ up'[v] = <<>> /\ inBuffer_'[v] = <<>> /\ down'[v] = <<>> /\ clientBuffer'[v] = <<>>
               /\ said'[v] = <<>> /\ heard'[v] = <<>> /\ taken'[v] = <<>> /\ owed'[v] = <<>>
    <3>1. state[v] = "kConnecting"
      BY <1>1, <2>2 DEF ChatInv, ChatType
    <3>2. v # u /\ v \notin takers \ {u}
      BY <1>1, <3>1 DEF ChatInv, MembersInv, takers
    <3> QED
      BY <1>1, <1>9, <1>10, <3>1, <3>2 DEF ChatInv, MembersInv
  <2> QED
    BY <2>1, <2>2 DEF MembersInv
<1>14. UpInv'
  <2>1. Arriving(SaidFrames(said'[u]), Len(taken'[u]), inBuffer_'[u], up'[u])
    BY <1>1, <1>6, <1>9 DEF ms, f
  <2>2. ASSUME NEW v \in connections_, v # u
        PROVE  Arriving(SaidFrames(said'[v]), Len(taken'[v]), inBuffer_'[v], up'[v])
    BY <1>0, <1>1, <1>9, <2>2 DEF ChatInv, UpInv
  <2>3. connections_' = connections_
    BY <1>1
  <2> QED
    BY <2>1, <2>2, <2>3 DEF UpInv
<1>15. DownInv'
  <2>1. connections_' = connections_ /\ clientBuffer' = clientBuffer /\ heard' = heard
    BY <1>1
  <2> QED
    BY <1>0, <1>11, <2>1 DEF DownInv, Acceptable
<1>16. MessagesFramed'
  <2>1. /\ Len(got \o ms) <= Len(s)
        /\ \A i \in 1..Len(got \o ms) : Proper(s[i]) /\ (got \o ms)[i] = Body(s[i])
    BY <1>2, <1>6, <1>7, TakenIs DEF f, ms
  <2>2. ASSUME NEW v \in Users
        PROVE  /\ Len(taken'[v]) <= Len(said'[v])
               /\ \A i \in 1..Len(taken'[v]) : Proper(said'[v][i]) /\ taken'[v][i] = Body(said'[v][i])
    <3>1. CASE v = u
      BY <1>1, <1>9, <2>1, <3>1
    <3>2. CASE v # u
      <4>1. taken'[v] = taken[v] /\ said'[v] = said[v]
        BY <1>1, <1>9, <3>2
      <4> QED
        BY <4>1 DEF ChatInv, MessagesFramed
    <3> QED
      BY <3>1, <3>2
  <2> QED
    BY <2>2 DEF MessagesFramed, Proper
<1>17. HeardInOrder'
  <2>1. heard' = heard
    BY <1>1
  <2> QED
    BY <1>11, <2>1 DEF HeardInOrder
<1> QED
  BY <1>12, <1>13, <1>14, <1>15, <1>16, <1>17 DEF ChatInv

\* Every step keeps the invariant.
LEMMA ChatInductive == ChatSpec => []ChatInv
<1>1. ChatInv /\ [ChatNext]_chatVars => ChatInv'
  <2> SUFFICES ASSUME ChatInv, [ChatNext]_chatVars PROVE ChatInv'
    OBVIOUS
  <2>1. ASSUME NEW u \in Users, Online(u) PROVE ChatInv'
    BY <2>1, OnlineSafe
  <2>2. ASSUME NEW u \in Users, Offline(u) PROVE ChatInv'
    BY <2>2, OfflineSafe
  <2>3. ASSUME NEW u \in Users, ServerReadsSome(u) PROVE ChatInv'
    BY <2>3, ServerReadsSafe DEF ServerReadsSome
  <2>4. ASSUME NEW u \in Users, UserReadsSome(u) PROVE ChatInv'
    BY <2>4, UserReadsSafe DEF UserReadsSome
  <2>5. ASSUME NEW u \in Users, NEW m \in Messages, Says(u, m) PROVE ChatInv'
    BY <2>5, SaysSafe
  <2>6. CASE UNCHANGED chatVars
    BY <2>6 DEF chatVars, ChatInv, ChatType, MembersInv, UpInv, DownInv, MessagesFramed,
                HeardInOrder, Proper, Acceptable
  <2> QED
    BY <2>1, <2>2, <2>3, <2>4, <2>5, <2>6 DEF ChatNext
<1> QED
  BY <1>1, ChatInitially, PTL DEF ChatSpec

\* LenHeaderCodec::onMessage() finds the messages again wherever TCP cuts the
\* stream, and takes nothing from the first length out of range on.
THEOREM CodecFindsMessages == ChatSpec => []MessagesFramed
<1>1. ChatInv => MessagesFramed
  BY DEF ChatInv
<1> QED
  BY <1>1, ChatInductive, PTL

\* ChatServer::onMessage() passes every message on to the others whole, in the
\* order in which the server took them.
THEOREM EverybodyHears == ChatSpec => []HeardInOrder
<1>1. ChatInv => HeardInOrder
  BY DEF ChatInv
<1> QED
  BY <1>1, ChatInductive, PTL
=============================================================================

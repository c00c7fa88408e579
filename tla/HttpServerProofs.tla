-------------------------- MODULE HttpServerProofs --------------------------
(***************************************************************************)
(* Proofs about HttpServer for any lines, any target and any chunking.     *)
(***************************************************************************)
EXTENDS HttpServer, SequenceTheorems, FiniteSetTheorems, WellFoundedInduction, TLAPS

TypeOK ==
    /\ state_ \in {"RequestLine", "Headers", "AllDone"}
    /\ pc \in {"idle", "parse", "done"}

\* What one call of setPath() on an empty path_ makes of the target.
PathOfTarget == <<>> \o setPath(PathOf(target), BehindPath(target))

(***************************************************************************)
(* The state AllDone is left, by reset(), before onMessage() returns.      *)
(***************************************************************************)
DoneInv == state_ = "AllDone" <=> pc = "done"

(***************************************************************************)
(* As long as no request line was rejected the request is empty before its *)
(* line is parsed, and filled from that line alone afterwards.             *)
(***************************************************************************)
RequestInv ==
    connected =>
        /\ ~reused
        /\ state_ = "RequestLine" => ~method_ /\ path_ = <<>>
        /\ state_ # "RequestLine" => path_ = PathOfTarget

\* The request handed to onRequest() is filled once, from the target of its own
\* request line: nothing of an earlier request is left in path_, and setMethod()
\* was never called on a method that was set.
OwnLineOnly ==
    connected => ~reused /\ (pc = "done" => path_ = PathOfTarget)

HttpInv == TypeOK /\ DoneInv /\ RequestInv

-----------------------------------------------------------------------------
\* A fresh context.
LEMMA HttpInit == Init => HttpInv
BY DEF Init, HttpInv, TypeOK, DoneInv, RequestInv

\* Neither a chunk nor a step of the parser breaks the invariant.
LEMMA HttpStep == HttpInv /\ [Next]_vars => HttpInv'
<1> SUFFICES ASSUME TypeOK, DoneInv, RequestInv, [Next]_vars PROVE HttpInv'
  BY DEF HttpInv
<1>a. UNCHANGED target => PathOfTarget' = PathOfTarget
  BY DEF PathOfTarget
<1>1. ASSUME NEW upTo \in sent..Len(lines), Receive(upTo) PROVE HttpInv'
  BY <1>1, <1>a DEF Receive, HttpInv, TypeOK, DoneInv, RequestInv, requestVars, clientVars
<1>2. CASE ParseRequestLine
  <2>1. UNCHANGED <<target, pc, connected>> /\ state_' = "Headers" /\ pc = "parse"
        /\ path_' = path_ \o setPath(PathOf(target), BehindPath(target))
        /\ reused' = (reused \/ method_) /\ state_ = "RequestLine"
    BY <1>2 DEF ParseRequestLine, AddPath, clientVars
  <2>2. connected => path_' = PathOfTarget
    BY <2>1, Zenon DEF RequestInv, PathOfTarget
  <2>3. RequestInv'
    BY <1>a, <2>1, <2>2 DEF RequestInv
  <2> QED
    BY <2>1, <2>3 DEF HttpInv, TypeOK, DoneInv
<1>3. CASE BadRequest
  BY <1>3 DEF BadRequest, AfterBadRequest, HttpInv, TypeOK, DoneInv, RequestInv
<1>4. CASE ParseHeader \/ ParseHeadersEnd \/ ParseNeedsMore
  <2>1. UNCHANGED <<target, connected, reused, path_, method_>> /\ TypeOK' /\ DoneInv'
        /\ (state_' = state_ \/ (state_ # "RequestLine" /\ state_' # "RequestLine"))
    BY <1>4 DEF ParseHeader, ParseHeadersEnd, ParseNeedsMore, requestVars, clientVars,
       TypeOK, DoneInv
  <2> QED
    BY <1>a, <2>1 DEF HttpInv, RequestInv
<1>5. CASE OnRequest
  <2>1. /\ state_' = "RequestLine" /\ ~method_' /\ path_' = <<>> /\ pc' = "idle"
        /\ UNCHANGED reused /\ (connected' => connected)
    BY <1>5 DEF OnRequest, ResetRequest
  <2> QED
    BY <2>1 DEF HttpInv, TypeOK, DoneInv, RequestInv
<1>6. CASE UNCHANGED vars
  BY <1>6, <1>a DEF vars, requestVars, clientVars, HttpInv, TypeOK, DoneInv, RequestInv
<1> QED
  BY <1>1, <1>2, <1>3, <1>4, <1>5, <1>6 DEF Next, OnMessage

\* HttpInv holds in every reachable state.
LEMMA HttpInvHolds == Spec => []HttpInv
BY HttpInit, HttpStep, PTL DEF Spec

\* parseRequest() is never entered in the state in which its loop has no exit.
THEOREM ParseLoopExits == Spec => []ParserTerminates
<1>1. HttpInv => ParserTerminates
  BY DEF HttpInv, DoneInv, ParserTerminates
<1> QED
  BY <1>1, HttpInvHolds, PTL

\* However the bytes are cut into chunks and pipelined, until a request line is
\* rejected every request is filled from its own line.
THEOREM RequestsDoNotMix == Spec => []OwnLineOnly
<1>1. HttpInv => OwnLineOnly
  BY DEF HttpInv, DoneInv, RequestInv, OwnLineOnly
<1> QED
  BY <1>1, HttpInvHolds, PTL

-----------------------------------------------------------------------------
(* Induction and recursion.  The library states both for an operator; here *)
(* they are stated for sets and functions, from the well-foundedness of <. *)

\* A nonempty set of natural numbers has a least element.
LEMMA LeastOf ==
    ASSUME NEW T, T \subseteq Nat, T # {}
    PROVE  \E x \in T : \A y \in T : x <= y
<1> DEFINE R == {ss \in Nat \X Nat : ss[1] < ss[2]}
<1>1. IsWellFoundedOn(R, Nat)
  BY NatLessThanWellFounded, Zenon DEF OpToRel
<1>2. \A x, y \in Nat : <<y, x>> \in R <=> y < x
  OBVIOUS
<1> HIDE DEF R
<1>3. PICK x \in T : \A y \in T : ~ (<<y, x>> \in R)
  BY <1>1, WFMin
<1>4. ASSUME NEW y \in T PROVE x <= y
  <2>1. x \in Nat /\ y \in Nat
    OBVIOUS
  <2>2. ~ (<<y, x>> \in R)
    BY <1>3
  <2>3. ~ (y < x)
    BY <1>2, <2>1, <2>2
  <2> QED
    BY <2>1, <2>3
<1> QED
  BY <1>4

\* Induction, for a set of numbers.
LEMMA Induction ==
    ASSUME NEW S, 0 \in S, \A n \in Nat : n \in S => n + 1 \in S
    PROVE  Nat \subseteq S
<1> SUFFICES ASSUME Nat \ S # {} PROVE FALSE
  OBVIOUS
<1>1. PICK x \in Nat \ S : \A y \in Nat \ S : x <= y
  BY LeastOf
<1>2. x # 0
  BY <1>1
<1>3. x - 1 \in Nat /\ x - 1 \in S
  BY <1>1, <1>2
<1> QED
  BY <1>1, <1>3

(***************************************************************************)
(* A recursive definition f[d] = H[d, f] over the set D has a solution if  *)
(* H looks only at the values of f for arguments of a smaller rank.        *)
(***************************************************************************)
Recursion(D, V, rank, N, H) ==
    /\ V # {}
    /\ N \in Nat
    /\ rank \in [D -> 0..N]
    /\ H \in [D \X [D -> V] -> V]
    /\ \A d \in D : \A f, g \in [D -> V] :
          (\A e \in D : rank[e] < rank[d] => f[e] = g[e]) => H[<<d, f>>] = H[<<d, g>>]

\* It is solved for the arguments of rank below n, for every n in turn.
LEMMA RecursiveFunction ==
    ASSUME NEW D, NEW V, NEW rank, NEW N, NEW H, Recursion(D, V, rank, N, H)
    PROVE  \E f \in [D -> V] : \A d \in D : f[d] = H[<<d, f>>]
<1> USE DEF Recursion
<1> DEFINE Solves(f, n) == \A d \in D : rank[d] < n => f[d] = H[<<d, f>>]
           S == {n \in Nat : \E f \in [D -> V] : Solves(f, n)}
<1>1. 0 \in S
  <2>1. PICK v \in V : TRUE
    OBVIOUS
  <2>2. [d \in D |-> v] \in [D -> V]
    OBVIOUS
  <2>3. Solves([d \in D |-> v], 0)
    OBVIOUS
  <2> QED
    BY <2>2, <2>3
<1>2. ASSUME NEW n \in Nat, n \in S PROVE n + 1 \in S
  <2>1. PICK f \in [D -> V] : Solves(f, n)
    BY <1>2
  <2> DEFINE g == [d \in D |-> IF rank[d] = n THEN H[<<d, f>>] ELSE f[d]]
  <2>2. g \in [D -> V]
    OBVIOUS
  <2>3. ASSUME NEW d \in D, rank[d] < n + 1 PROVE g[d] = H[<<d, g>>]
    <3>1. \A e \in D : rank[e] < rank[d] => f[e] = g[e]
      BY <2>3
    <3>2. H[<<d, f>>] = H[<<d, g>>]
      <4> HIDE DEF g
      <4> QED BY <3>1, <2>2
    <3>3. g[d] = H[<<d, f>>]
      BY <2>1, <2>3
    <3> QED
      BY <3>2, <3>3
  <2>4. Solves(g, n + 1)
    BY <2>3
  <2> HIDE DEF g
  <2> QED
    BY <2>2, <2>4
<1>3. N + 1 \in S
  <2> HIDE DEF S
  <2> QED BY <1>1, <1>2, Induction
<1>4. PICK f \in [D -> V] : Solves(f, N + 1)
  BY <1>3
<1>5. \A d \in D : rank[d] < N + 1
  OBVIOUS
<1> QED
  BY <1>4, <1>5

-----------------------------------------------------------------------------
(* The responses.                                                          *)

Answer == {"400", "close", "keep"}

\* The reference is about the lines only.
LEMMA AnswersFixed ==
    ASSUME UNCHANGED lines
    PROVE  /\ AnswersFrom' = AnswersFrom /\ ResponsesFrom' = ResponsesFrom
           /\ \A a, b : ConnectionHeader(a, b)' = ConnectionHeader(a, b)
<1>1. AnswersFrom' = AnswersFrom
  BY DEF AnswersFrom, FirstWithoutColon, ConnectionHeader
<1> QED
  BY <1>1 DEF ResponsesFrom, ConnectionHeader

\* FirstWithoutColon() is the line that ends the headers.
LEMMA FirstIs ==
    ASSUME lines \in Seq(Line), NEW i \in Nat, NEW j \in i..Len(lines),
           ~HasColon(lines[j])
    PROVE  /\ FirstWithoutColon(i) \in i..Len(lines)
           /\ (\A k \in i..(j - 1) : HasColon(lines[k])) => FirstWithoutColon(i) = j
<1> DEFINE Ends(n) == ~HasColon(lines[n]) /\ \A k \in i..(n - 1) : HasColon(lines[k])
<1>1. \E n \in i..Len(lines) : Ends(n)
  <2> DEFINE T == {n \in i..Len(lines) : ~HasColon(lines[n])}
  <2>1. T \subseteq Nat /\ T # {}
    OBVIOUS
  <2>2. PICK n \in T : \A m \in T : n <= m
    BY <2>1, LeastOf
  <2>3. n \in i..Len(lines) /\ ~HasColon(lines[n])
    BY <2>2
  <2>4. ASSUME NEW k \in i..(n - 1) PROVE HasColon(lines[k])
    <3>1. k \in i..Len(lines) /\ ~ (n <= k)
      BY <2>3
    <3> QED
      BY <2>2, <3>1
  <2> QED
    BY <2>3, <2>4
<1>2. FirstWithoutColon(i) = CHOOSE n \in i..Len(lines) : Ends(n)
  BY DEF FirstWithoutColon
<1>3. FirstWithoutColon(i) \in i..Len(lines) /\ Ends(FirstWithoutColon(i))
  BY <1>1, <1>2
<1>4. ASSUME \A k \in i..(j - 1) : HasColon(lines[k]), NEW n \in i..Len(lines), Ends(n)
      PROVE  n = j
  <2>1. ~(n < j)
    BY <1>4
  <2>2. ~(j < n)
    BY <1>4
  <2> QED
    BY <2>1, <2>2
<1> QED
  BY <1>3, <1>4

\* What one more header line changes.
LEMMA HeaderAdded ==
    ASSUME NEW a \in Nat, NEW b \in Nat, a <= b + 1
    PROVE  /\ ConnectionHeader(a, a - 1) = "none"
           /\ ConnectionHeader(a, b + 1) = IF lines[b + 1] \in {"close", "keepAlive"}
                                           THEN lines[b + 1] ELSE ConnectionHeader(a, b)
<1> DEFINE Found(n) == {i \in a..n : lines[i] \in {"close", "keepAlive"}}
<1>1. Found(a - 1) = {}
  OBVIOUS
<1>2. CASE lines[b + 1] \in {"close", "keepAlive"}
  <2>1. b + 1 \in Found(b + 1) /\ \A j \in Found(b + 1) : j <= b + 1 /\ j \in Nat
    BY <1>2
  <2>2. LastOf(Found(b + 1)) = b + 1
    <3>1. ASSUME NEW x \in Found(b + 1), \A j \in Found(b + 1) : j <= x PROVE x = b + 1
      BY <3>1, <2>1
    <3> HIDE DEF Found
    <3> QED
      BY <2>1, <3>1 DEF LastOf
  <2>3. ConnectionHeader(a, b + 1) = lines[b + 1]
    BY <2>1, <2>2 DEF ConnectionHeader
  <2> QED
    BY <1>1, <1>2, <2>3 DEF ConnectionHeader
<1>3. CASE lines[b + 1] \notin {"close", "keepAlive"}
  <2>1. Found(b + 1) = Found(b)
    BY <1>3
  <2> QED
    BY <1>1, <1>3, <2>1 DEF ConnectionHeader
<1> QED
  BY <1>2, <1>3

(***************************************************************************)
(* AnswersFrom satisfies its defining equation.                            *)
(***************************************************************************)
AnswersAt(f, i) ==
    IF i > Len(lines) THEN <<>>
    ELSE IF ~WellFormed(lines[i]) THEN <<"400">>
    ELSE IF \A j \in (i + 1)..Len(lines) : HasColon(lines[j]) THEN <<>>
    ELSE LET last == FirstWithoutColon(i + 1)
         IN  IF WantsClose(lines[i], ConnectionHeader(i + 1, last - 1)) THEN <<"close">>
             ELSE <<"keep">> \o f[last + 1]

\* The recursion goes forward, within the lines.
LEMMA AnswersForward ==
    ASSUME lines \in Seq(Line), NEW i \in 1..(Len(lines) + 2), i <= Len(lines),
           ~ \A j \in (i + 1)..Len(lines) : HasColon(lines[j])
    PROVE  FirstWithoutColon(i + 1) \in (i + 1)..Len(lines)
<1>1. PICK j \in (i + 1)..Len(lines) : ~HasColon(lines[j])
  OBVIOUS
<1> QED
  BY <1>1, FirstIs

\* The list of responses is defined for every line, and is what its lines say.
LEMMA AnswersIs ==
    ASSUME lines \in Seq(Line)
    PROVE  /\ AnswersFrom \in [1..(Len(lines) + 2) -> Seq(Answer)]
           /\ \A i \in 1..(Len(lines) + 2) : AnswersFrom[i] = AnswersAt(AnswersFrom, i)
<1> DEFINE N == Len(lines) + 2
           D == 1..N
           V == Seq(Answer)
           rank == [i \in D |-> N - i]
           H == [x \in D \X [D -> V] |-> AnswersAt(x[2], x[1])]
<1>0. N \in Nat /\ D \subseteq Nat
  OBVIOUS
<1>1. ASSUME NEW f, NEW i \in D, \A j \in D : j > i => f[j] \in V PROVE AnswersAt(f, i) \in V
  <2>1. <<>> \in V /\ <<"400">> \in V /\ <<"close">> \in V /\ <<"keep">> \in V
    BY DEF Answer
  <2>2. ASSUME i <= Len(lines), ~ \A j \in (i + 1)..Len(lines) : HasColon(lines[j])
        PROVE  <<"keep">> \o f[FirstWithoutColon(i + 1) + 1] \in V
    <3>1. FirstWithoutColon(i + 1) \in (i + 1)..Len(lines)
      BY <2>2, AnswersForward
    <3>2. f[FirstWithoutColon(i + 1) + 1] \in V
      BY <1>1, <3>1
    <3> QED
      BY <2>1, <3>2, ConcatProperties
  <2> HIDE DEF V
  <2> QED
    BY <2>1, <2>2 DEF AnswersAt
<1>2. H \in [D \X [D -> V] -> V]
  <2>1. ASSUME NEW f \in [D -> V], NEW i \in D PROVE AnswersAt(f, i) \in V
    BY <1>1
  <2> HIDE DEF D, V
  <2> QED
    BY <2>1
<1>3. ASSUME NEW i \in D, NEW f \in [D -> V], NEW g \in [D -> V],
             \A j \in D : rank[j] < rank[i] => f[j] = g[j]
      PROVE  H[<<i, f>>] = H[<<i, g>>]
  <2>1. AnswersAt(f, i) = AnswersAt(g, i)
    <3>1. ASSUME i <= Len(lines), ~ \A j \in (i + 1)..Len(lines) : HasColon(lines[j])
          PROVE  f[FirstWithoutColon(i + 1) + 1] = g[FirstWithoutColon(i + 1) + 1]
      <4>1. FirstWithoutColon(i + 1) \in (i + 1)..Len(lines)
        BY <3>1, AnswersForward
      <4> QED
        BY <1>3, <4>1
    <3> QED
      BY <3>1 DEF AnswersAt
  <2> HIDE DEF D, V
  <2> QED
    BY <2>1
<1>4. \E f \in [D -> V] : \A i \in D : f[i] = H[<<i, f>>]
  <2>1. <<>> \in V
    OBVIOUS
  <2>2. rank \in [D -> 0..N]
    OBVIOUS
  <2> HIDE DEF D, V, rank, H, N
  <2>3. Recursion(D, V, rank, N, H)
    BY <1>0, <1>2, <1>3, <2>1, <2>2 DEF Recursion
  <2> QED
    BY <2>3, RecursiveFunction
<1>5. PICK f \in [D -> V] : \A i \in D : f[i] = AnswersAt(f, i)
  <2> HIDE DEF D, V
  <2> QED
    BY <1>4
<1>6. f = [i \in D |-> AnswersAt(f, i)]
  <2> HIDE DEF D, V
  <2> QED
    BY <1>5
<1>7. AnswersFrom = [i \in D |-> AnswersAt(AnswersFrom, i)]
  BY <1>6 DEF AnswersFrom, AnswersAt, WantsClose
<1>8. AnswersFrom \in [D -> V]
  <2> DEFINE T == {n \in Nat : n <= N /\ N - n \in D /\ AnswersFrom[N - n] \notin V}
  <2>1. SUFFICES ASSUME T # {} PROVE FALSE
    <3>1. ASSUME NEW i \in D, AnswersFrom[i] \notin V PROVE N - i \in T
      BY <3>1
    <3>2. \A i \in D : AnswersFrom[i] \in V
      BY <2>1, <3>1
    <3> HIDE DEF D, V
    <3> QED
      BY <1>7, <3>2
  <2>2. PICK n \in T : \A m \in T : n <= m
    BY <2>1, LeastOf
  <2>3. ASSUME NEW j \in D, j > N - n, AnswersFrom[j] \notin V PROVE FALSE
    <3>1. N - j \in Nat /\ N - (N - j) = j /\ N - j < n
      BY <2>2, <2>3
    <3>2. N - j \in T
      BY <2>3, <3>1
    <3> QED
      BY <2>2, <3>1, <3>2
  <2>4. AnswersAt(AnswersFrom, N - n) \in V
    BY <1>1, <2>2, <2>3
  <2> HIDE DEF D, V
  <2> QED
    BY <1>7, <2>2, <2>4
<1> QED
  BY <1>7, <1>8

(***************************************************************************)
(* What parsing has done so far: the first consumed of the lines that      *)
(* arrived are parsed, the others are in the buffer.  Between two requests *)
(* the responses so far are continued by what the other lines call for;    *)
(* within the request that began in line r they are continued by what the  *)
(* lines from r on call for, and version_ and header_ are those of r.      *)
(***************************************************************************)
consumed == sent - Len(buffer)

BufferInv ==
    /\ sent \in 0..Len(lines)
    /\ consumed \in 0..sent
    /\ buffer = SubSeq(lines, consumed + 1, sent)

Begun(r) ==
    /\ responses \o AnswersFrom[r] = ResponsesFrom
    /\ WellFormed(lines[r]) /\ version_ = lines[r]
    /\ LET last == IF state_ = "Headers" THEN consumed ELSE consumed - 1
       IN  /\ last >= r
           /\ \A j \in (r + 1)..last : HasColon(lines[j])
           /\ header_ = ConnectionHeader(r + 1, last)
           /\ state_ = "AllDone" => ~HasColon(lines[consumed])

AnswerInv ==
    connected =>
        /\ state_ = "RequestLine" =>
              header_ = "none" /\ responses \o AnswersFrom[consumed + 1] = ResponsesFrom
        /\ state_ # "RequestLine" => \E r \in 1..consumed : Begun(r)

ParsedInv ==
    /\ lines \in Seq(Line) /\ responses \in Seq(Answer)
    /\ BufferInv /\ AnswerInv /\ ResponsesInOrder

\* What is continued by other responses is a prefix.
LEMMA Continued ==
    ASSUME NEW r \in Seq(Answer), NEW s \in Seq(Answer)
    PROVE  /\ Len(r) <= Len(r \o s) /\ r = SubSeq(r \o s, 1, Len(r))
           /\ r \o <<>> = r
           /\ \A a \in Answer : Append(r, a) = r \o <<a>> /\ Append(r, a) \in Seq(Answer)
                                /\ Append(r, a) \o s = r \o (<<a>> \o s)
<1>1. r \o s \in Seq(Answer) /\ Len(r \o s) = Len(r) + Len(s)
      /\ \A i \in 1..Len(r) : (r \o s)[i] = r[i]
  BY ConcatProperties
<1>2. SubSeq(r \o s, 1, Len(r)) = r
  BY <1>1, SubSeqProperties, SeqEqual
<1>3. ASSUME NEW a \in Answer
      PROVE  Append(r, a) = r \o <<a>> /\ Append(r, a) \in Seq(Answer)
             /\ Append(r, a) \o s = r \o (<<a>> \o s)
  <2>1. <<a>> \in Seq(Answer)
    OBVIOUS
  <2> QED
    BY <2>1, AppendIsConcat, ConcatAssociative
<1> QED
  BY <1>1, <1>2, <1>3, ConcatEmptySeq

\* The first line of the buffer and the others.
LEMMA Consume ==
    ASSUME lines \in Seq(Line), BufferInv, buffer # <<>>
    PROVE  /\ consumed + 1 \in 1..Len(lines) /\ consumed < sent
           /\ Head(buffer) = lines[consumed + 1]
           /\ UNCHANGED <<lines, sent>> /\ buffer' = Tail(buffer) =>
                 BufferInv' /\ consumed' = consumed + 1
<1> DEFINE c == consumed
<1>0. c \in Nat /\ sent \in Nat /\ Len(lines) \in Nat /\ sent <= Len(lines) /\ c <= sent
  BY DEF BufferInv
<1>1. buffer \in Seq(Line) /\ Len(buffer) = sent - c
      /\ \A i \in 1..Len(buffer) : buffer[i] = lines[c + i]
  <2>1. c + 1 \in 1..(Len(lines) + 1) /\ sent \in c..Len(lines)
    BY <1>0
  <2> QED
    BY <1>0, <2>1, SubSeqProperties DEF BufferInv
<1>2. Len(buffer) > 0
  BY <1>1, EmptySeq
<1>3. c + 1 <= sent /\ Head(buffer) = lines[c + 1]
  BY <1>0, <1>1, <1>2
<1>4. ASSUME UNCHANGED <<lines, sent>>, buffer' = Tail(buffer)
      PROVE  BufferInv' /\ consumed' = c + 1
  <2>1. Tail(buffer) \in Seq(Line) /\ Len(Tail(buffer)) = sent - (c + 1)
        /\ \A i \in 1..Len(Tail(buffer)) : Tail(buffer)[i] = lines[(c + 1) + i]
    BY <1>0, <1>1, <1>2, HeadTailProperties
  <2>2. consumed' = c + 1
    BY <1>0, <1>4, <2>1 DEF consumed
  <2>3. Tail(buffer) = SubSeq(lines, (c + 1) + 1, sent)
    <3>1. SubSeq(lines, (c + 1) + 1, sent) \in Seq(Line)
          /\ Len(SubSeq(lines, (c + 1) + 1, sent)) = sent - (c + 1)
          /\ \A i \in 1..(sent - (c + 1)) :
                SubSeq(lines, (c + 1) + 1, sent)[i] = lines[(c + 1) + i]
      BY <1>0, <1>3, SubSeqProperties
    <3> QED
      BY <2>1, <3>1, SeqEqual
  <2> QED
    BY <1>0, <1>3, <1>4, <2>2, <2>3 DEF BufferInv
<1> QED
  BY <1>0, <1>3, <1>4

\* A chunk adds to the buffer what it completes.
LEMMA Arrive ==
    ASSUME lines \in Seq(Line), BufferInv, NEW upTo \in sent..Len(lines), Receive(upTo)
    PROVE  BufferInv' /\ consumed' = consumed
<1> DEFINE c == consumed
           more == SubSeq(lines, sent + 1, upTo)
<1>0. c \in Nat /\ sent \in Nat /\ upTo \in Nat /\ Len(lines) \in Nat /\ sent <= Len(lines)
      /\ c <= sent /\ sent <= upTo /\ upTo <= Len(lines)
  BY DEF BufferInv
<1>1. buffer \in Seq(Line) /\ Len(buffer) = sent - c
      /\ \A i \in 1..Len(buffer) : buffer[i] = lines[c + i]
  BY <1>0, SubSeqProperties DEF BufferInv
<1>2. more \in Seq(Line) /\ Len(more) = upTo - sent
      /\ \A i \in 1..Len(more) : more[i] = lines[sent + i]
  BY <1>0, SubSeqProperties
<1>3. buffer \o more = SubSeq(lines, c + 1, upTo)
  <2>1. SubSeq(lines, c + 1, upTo) \in Seq(Line) /\ Len(SubSeq(lines, c + 1, upTo)) = upTo - c
        /\ \A i \in 1..(upTo - c) : SubSeq(lines, c + 1, upTo)[i] = lines[c + i]
    BY <1>0, SubSeqProperties
  <2> HIDE DEF more, c
  <2>2. buffer \o more \in Seq(Line) /\ Len(buffer \o more) = upTo - c
    BY <1>0, <1>1, <1>2, ConcatProperties
  <2>3. ASSUME NEW i \in 1..(upTo - c) PROVE (buffer \o more)[i] = lines[c + i]
    <3>0. Len(buffer) \in Nat /\ i \in Nat /\ i <= Len(buffer) + Len(more)
      BY <1>0, <1>1, <1>2
    <3>1. CASE i <= Len(buffer)
      BY <1>0, <1>1, <1>2, <3>1, ConcatProperties
    <3>2. CASE i > Len(buffer)
      <4> DEFINE k == i - Len(buffer)
      <4>1. k \in 1..Len(more) /\ sent + k = c + i
        BY <1>0, <1>1, <1>2, <3>0, <3>2
      <4>2. (buffer \o more)[i] = more[k]
        BY <1>1, <1>2, <3>0, <3>2, ConcatProperties
      <4>3. more[k] = lines[sent + k]
        BY <1>2, <4>1
      <4> QED
        BY <4>1, <4>2, <4>3
    <3> QED
      BY <3>0, <3>1, <3>2
  <2> QED
    BY <2>1, <2>2, <2>3, SeqEqual
<1>4. lines' = lines /\ sent' = upTo /\ buffer' = buffer \o more
  BY DEF Receive, clientVars
<1>5. Len(buffer \o more) = upTo - c
  <2> HIDE DEF more, c
  <2>1. Len(buffer \o more) = Len(buffer) + Len(more)
    BY <1>1, <1>2, ConcatProperties
  <2> QED
    BY <1>0, <1>1, <1>2, <2>1
<1>6. consumed' = c
  BY <1>0, <1>4, <1>5 DEF consumed
<1> QED
  BY <1>0, <1>3, <1>4, <1>6 DEF BufferInv

\* A step after which the same lines are parsed and the same responses sent.
LEMMA ParsedUnchanged ==
    ASSUME ParsedInv, BufferInv', consumed' = consumed,
           UNCHANGED <<lines, responses, connected, state_, version_, header_>>
    PROVE  ParsedInv'
<1>1. \A r : Begun(r)' <=> Begun(r)
  BY AnswersFixed DEF Begun
<1>2. AnswerInv' /\ ResponsesInOrder'
  BY <1>1, AnswersFixed DEF ParsedInv, AnswerInv, ResponsesInOrder
<1> QED
  BY <1>2 DEF ParsedInv

\* A fresh connection.
LEMMA ParsedInit == Init => ParsedInv
<1> SUFFICES ASSUME Init PROVE ParsedInv
  OBVIOUS
<1>1. lines \in Seq(Line) /\ sent = 0 /\ buffer = <<>> /\ responses = <<>>
      /\ state_ = "RequestLine" /\ header_ = "none"
  BY InputsAssumption DEF Init
<1>2. consumed = 0 /\ BufferInv
  <2>1. consumed = 0
    <3>1. Len(buffer) = 0 /\ sent = 0
      BY <1>1
    <3> QED
      BY <3>1 DEF consumed
  <2>2. SubSeq(lines, 0 + 1, 0) = <<>> /\ Len(lines) \in Nat
    BY <1>1, SubSeqProperties, EmptySeq
  <2> QED
    BY <1>1, <2>1, <2>2 DEF BufferInv
<1>3. AnswersFrom[1] \in Seq(Answer)
  BY <1>1, AnswersIs
<1>4. responses \in Seq(Answer) /\ responses \o AnswersFrom[1] = AnswersFrom[1]
  BY <1>1, <1>3, ConcatEmptySeq
<1>5. AnswerInv
  BY <1>1, <1>2, <1>4 DEF AnswerInv, ResponsesFrom
<1>6. ResponsesInOrder
  BY <1>3, <1>4, Continued DEF ResponsesInOrder, ResponsesFrom
<1> QED
  BY <1>1, <1>2, <1>4, <1>5, <1>6 DEF ParsedInv

\* A well-formed request line begins a request.
LEMMA RequestLineParsed ==
    ASSUME ParsedInv, ParseRequestLine PROVE ParsedInv'
<1>0. PICK c \in Nat : c = consumed
  BY DEF ParsedInv, BufferInv
<1>1. /\ UNCHANGED <<lines, sent, responses, connected, header_>>
      /\ state_ = "RequestLine" /\ state_' = "Headers" /\ version_' = Head(buffer)
      /\ buffer # <<>> /\ buffer' = Tail(buffer) /\ WellFormed(Head(buffer))
  BY DEF ParseRequestLine, clientVars
<1>2. /\ c + 1 \in 1..Len(lines) /\ Head(buffer) = lines[c + 1]
      /\ BufferInv' /\ consumed' = c + 1
  BY <1>0, <1>1, Consume DEF ParsedInv
<1>3. c \in Nat /\ Len(lines) \in Nat
  BY <1>0 DEF ParsedInv, BufferInv
<1>4. ASSUME connected PROVE Begun(c + 1)'
  <2>1. responses \o AnswersFrom[c + 1] = ResponsesFrom /\ header_ = "none"
    BY <1>0, <1>1, <1>4 DEF ParsedInv, AnswerInv
  <2>2. ConnectionHeader((c + 1) + 1, c + 1) = "none"
    <3>1. ((c + 1) + 1) - 1 = c + 1 /\ (c + 1) + 1 \in Nat
      BY <1>3
    <3> QED
      BY <3>1, HeaderAdded
  <2>3. \A j \in ((c + 1) + 1)..(c + 1) : FALSE
    BY <1>3
  <2> QED
    BY <1>1, <1>2, <1>3, <2>1, <2>2, <2>3, AnswersFixed DEF Begun
<1>5. AnswerInv'
  BY <1>1, <1>2, <1>3, <1>4 DEF AnswerInv
<1> QED
  BY <1>1, <1>2, <1>5, AnswersFixed DEF ParsedInv, ResponsesInOrder

\* A bad request line is answered by the last response.
LEMMA BadLineParsed ==
    ASSUME ParsedInv, BadRequest PROVE ParsedInv'
<1> DEFINE c == consumed
<1>1. /\ UNCHANGED <<lines, sent, buffer>>
      /\ state_ = "RequestLine" /\ buffer # <<>> /\ ~WellFormed(Head(buffer))
      /\ ~connected'
      /\ responses' = IF connected THEN Append(responses, "400") ELSE responses
  BY DEF BadRequest, AfterBadRequest, Respond, clientVars
<1>2. c + 1 \in 1..Len(lines) /\ Head(buffer) = lines[c + 1] /\ BufferInv' /\ lines \in Seq(Line)
  BY <1>1, Consume DEF ParsedInv, BufferInv, consumed
<1>3. "400" \in Answer
  BY DEF Answer
<1>4. CASE connected
  <2>1. responses \o AnswersFrom[c + 1] = ResponsesFrom
    BY <1>1, <1>4 DEF ParsedInv, AnswerInv
  <2>2. AnswersFrom[c + 1] = <<"400">>
    BY <1>1, <1>2, AnswersIs DEF AnswersAt
  <2>3. responses' = ResponsesFrom /\ responses' \in Seq(Answer)
    BY <1>1, <1>3, <1>4, <2>1, <2>2, Continued DEF ParsedInv
  <2>4. responses' \o <<>> = responses'
    BY <2>3, Continued
  <2>5. Len(responses') <= Len(ResponsesFrom) /\ responses' = SubSeq(ResponsesFrom, 1, Len(responses'))
    <3>1. <<>> \in Seq(Answer)
      OBVIOUS
    <3> QED
      BY <2>3, <2>4, <3>1, Continued
  <2> QED
    BY <1>1, <1>2, <2>3, <2>5, AnswersFixed DEF ParsedInv, AnswerInv, ResponsesInOrder
<1>5. CASE ~connected
  BY <1>1, <1>2, <1>5, AnswersFixed DEF ParsedInv, AnswerInv, ResponsesInOrder
<1> QED
  BY <1>4, <1>5

\* A header line is one more line of the request.
LEMMA HeaderParsed ==
    ASSUME ParsedInv, ParseHeader PROVE ParsedInv'
<1> DEFINE c == consumed
<1>1. /\ UNCHANGED <<lines, sent, responses, connected, state_, version_>>
      /\ state_ = "Headers" /\ buffer # <<>> /\ buffer' = Tail(buffer)
      /\ HasColon(Head(buffer))
      /\ header_' = IF Head(buffer) = "header" THEN header_ ELSE Head(buffer)
  BY DEF ParseHeader, clientVars
<1>2. /\ c + 1 \in 1..Len(lines) /\ Head(buffer) = lines[c + 1]
      /\ BufferInv' /\ consumed' = c + 1
  BY <1>1, Consume DEF ParsedInv
<1>3. c \in Nat
  BY DEF ParsedInv, BufferInv
<1>4. ASSUME NEW r \in 1..c, Begun(r) PROVE Begun(r)'
  <2>1. /\ c >= r /\ (\A j \in (r + 1)..c : HasColon(lines[j]))
        /\ header_ = ConnectionHeader(r + 1, c)
    BY <1>1, <1>4 DEF Begun
  <2>2. header_' = ConnectionHeader(r + 1, c + 1)
    <3>1. ConnectionHeader(r + 1, c + 1) = IF lines[c + 1] \in {"close", "keepAlive"}
                                           THEN lines[c + 1] ELSE ConnectionHeader(r + 1, c)
      BY <1>3, <2>1, HeaderAdded
    <3> QED
      BY <1>1, <1>2, <2>1, <3>1 DEF HasColon
  <2>3. \A j \in (r + 1)..(c + 1) : HasColon(lines[j])
    BY <1>1, <1>2, <1>3, <2>1
  <2> QED
    BY <1>1, <1>2, <1>3, <1>4, <2>1, <2>2, <2>3, AnswersFixed DEF Begun
<1>5. AnswerInv'
  BY <1>1, <1>2, <1>3, <1>4 DEF ParsedInv, AnswerInv
<1> QED
  BY <1>1, <1>2, <1>5, AnswersFixed DEF ParsedInv, ResponsesInOrder

\* The line without a colon ends the request.
LEMMA HeadersEndParsed ==
    ASSUME ParsedInv, ParseHeadersEnd PROVE ParsedInv'
<1> DEFINE c == consumed
<1>1. /\ UNCHANGED <<lines, sent, responses, connected, header_, version_>>
      /\ state_ = "Headers" /\ state_' = "AllDone" /\ buffer # <<>> /\ buffer' = Tail(buffer)
      /\ ~HasColon(Head(buffer))
  BY DEF ParseHeadersEnd, clientVars
<1>2. /\ c + 1 \in 1..Len(lines) /\ Head(buffer) = lines[c + 1]
      /\ BufferInv' /\ consumed' = c + 1
  BY <1>1, Consume DEF ParsedInv
<1>3. c \in Nat /\ (c + 1) - 1 = c
  BY DEF ParsedInv, BufferInv
<1>4. ASSUME NEW r \in 1..c, Begun(r) PROVE Begun(r)'
  BY <1>1, <1>2, <1>3, <1>4, AnswersFixed DEF Begun
<1>5. AnswerInv'
  BY <1>1, <1>2, <1>3, <1>4 DEF ParsedInv, AnswerInv
<1> QED
  BY <1>1, <1>2, <1>5, AnswersFixed DEF ParsedInv, ResponsesInOrder

\* The response is the one that the lines of the request call for.
LEMMA RequestAnswered ==
    ASSUME ParsedInv, state_ = "AllDone", OnRequest PROVE ParsedInv'
<1> DEFINE c == consumed
           close == WantsClose(version_, header_)
           a == IF close THEN "close" ELSE "keep"
<1>1. /\ UNCHANGED <<lines, sent, buffer>>
      /\ state_' = "RequestLine" /\ header_' = "none"
      /\ connected' = (connected /\ ~close)
      /\ responses' = IF connected THEN Append(responses, a) ELSE responses
  BY DEF OnRequest, ResetRequest, Respond, clientVars
<1>2. /\ c \in Nat /\ Len(lines) \in Nat /\ c <= Len(lines) /\ lines \in Seq(Line)
      /\ BufferInv' /\ consumed' = c /\ responses \in Seq(Answer)
  BY <1>1 DEF ParsedInv, BufferInv, consumed
<1>3. CASE ~connected
  BY <1>1, <1>2, <1>3, AnswersFixed DEF ParsedInv, AnswerInv, ResponsesInOrder
<1>4. CASE connected
  <2>1. PICK r \in 1..c : Begun(r)
    BY <1>4 DEF ParsedInv, AnswerInv
  <2>2. /\ responses \o AnswersFrom[r] = ResponsesFrom
        /\ WellFormed(lines[r]) /\ version_ = lines[r] /\ c - 1 >= r
        /\ \A j \in (r + 1)..(c - 1) : HasColon(lines[j])
        /\ header_ = ConnectionHeader(r + 1, c - 1) /\ ~HasColon(lines[c])
    BY <2>1 DEF Begun
  <2>3. r \in Nat /\ r <= Len(lines) /\ c \in (r + 1)..Len(lines)
    BY <1>2, <2>2
  <2>4. FirstWithoutColon(r + 1) = c
    BY <1>2, <2>2, <2>3, FirstIs
  <2>5. AnswersFrom[r] = IF close THEN <<"close">> ELSE <<"keep">> \o AnswersFrom[c + 1]
    <3>1. AnswersFrom[r] = AnswersAt(AnswersFrom, r)
      BY <1>2, <2>3, AnswersIs
    <3>2. ~ \A j \in (r + 1)..Len(lines) : HasColon(lines[j])
      BY <2>2, <2>3
    <3>3. ~(r > Len(lines))
      BY <1>2, <2>3
    <3> QED
      BY <2>2, <2>4, <3>1, <3>2, <3>3 DEF AnswersAt
  <2>6. AnswersFrom[c + 1] \in Seq(Answer) /\ <<>> \in Seq(Answer) /\ a \in Answer
    BY <1>2, AnswersIs DEF Answer
  <2>7. responses' \in Seq(Answer) /\ responses' \o (IF close THEN <<>> ELSE AnswersFrom[c + 1])
                                        = ResponsesFrom
    <3>1. responses' = Append(responses, a) /\ responses' \in Seq(Answer)
      BY <1>1, <1>2, <1>4, <2>6, Continued
    <3>2. CASE close
      BY <1>2, <2>2, <2>5, <2>6, <3>1, <3>2, Continued
    <3>3. CASE ~close
      <4>1. AnswersFrom[r] = <<a>> \o AnswersFrom[c + 1]
        BY <2>5, <3>3
      <4>2. Append(responses, a) \o AnswersFrom[c + 1] = responses \o (<<a>> \o AnswersFrom[c + 1])
        <5> HIDE DEF a, c
        <5> QED
          BY <1>2, <2>6, Continued
      <4> QED
        BY <2>2, <3>1, <3>3, <4>1, <4>2
    <3> QED
      BY <3>1, <3>2, <3>3
  <2>8. Len(responses') <= Len(ResponsesFrom) /\ responses' = SubSeq(ResponsesFrom, 1, Len(responses'))
    BY <2>6, <2>7, Continued
  <2>9. AnswerInv'
    BY <1>1, <1>2, <2>7, AnswersFixed DEF AnswerInv
  <2> QED
    BY <1>1, <1>2, <2>7, <2>8, <2>9, AnswersFixed DEF ParsedInv, ResponsesInOrder
<1> QED
  BY <1>3, <1>4

\* Neither a chunk nor a step of the parser breaks ParsedInv.
LEMMA ParsedStep == HttpInv /\ ParsedInv /\ [Next]_vars => ParsedInv'
<1> SUFFICES ASSUME HttpInv, ParsedInv, [Next]_vars PROVE ParsedInv'
  OBVIOUS
<1>1. ASSUME NEW upTo \in sent..Len(lines), Receive(upTo) PROVE ParsedInv'
  <2>1. UNCHANGED <<lines, responses, connected, state_, version_, header_>>
    BY <1>1 DEF Receive, clientVars, requestVars
  <2>2. BufferInv' /\ consumed' = consumed
    BY <1>1, Arrive DEF ParsedInv
  <2> QED
    BY <2>1, <2>2, ParsedUnchanged
<1>2. CASE ParseNeedsMore \/ UNCHANGED vars
  <2>1. UNCHANGED <<lines, sent, buffer, responses, connected, state_, version_, header_>>
    BY <1>2 DEF ParseNeedsMore, vars, clientVars, requestVars
  <2>2. BufferInv' /\ consumed' = consumed
    BY <2>1 DEF ParsedInv, BufferInv, consumed
  <2> QED
    BY <2>1, <2>2, ParsedUnchanged
<1>3. CASE OnRequest
  <2>1. state_ = "AllDone"
    BY <1>3 DEF OnRequest, HttpInv, DoneInv
  <2> QED
    BY <1>3, <2>1, RequestAnswered
<1> QED
  BY <1>1, <1>2, <1>3, RequestLineParsed, BadLineParsed, HeaderParsed, HeadersEndParsed
  DEF Next, OnMessage

\* The client gets the responses its lines call for, in order, for any lines in
\* any chunks, pipelined or not.
THEOREM AnswersInOrder == Spec => []ResponsesInOrder
<1>1. ParsedInv => ResponsesInOrder
  BY DEF ParsedInv
<1> QED
  BY <1>1, ParsedInit, ParsedStep, HttpInvHolds, PTL DEF Spec

-----------------------------------------------------------------------------
(* Percent-decoding.                                                       *)

\* The characters that setPath() looks at.
CharAt(text, behind, i) == IF i <= Len(text) THEN text[i] ELSE behind

\* One step of its state machine.
DecodeAt(text, behind, f, i, pct) ==
    LET at(k) == CharAt(text, behind, k)
    IN  IF i > Len(text) THEN <<>>
        ELSE IF ~pct THEN IF at(i) = Percent THEN f[<<i + 1, TRUE>>]
                          ELSE <<at(i)>> \o f[<<i + 1, FALSE>>]
        ELSE IF ~IsHex(at(i)) THEN f[<<i + 1, TRUE>>]
        ELSE IF ~IsHex(at(i + 1)) THEN f[<<i + 2, TRUE>>]
        ELSE <<16 * HexValue(at(i)) + HexValue(at(i + 1))>> \o f[<<i + 2, AfterEscape>>]

\* It yields a sequence if the later ones do.
LEMMA DecodeType ==
    ASSUME NEW text \in Seq(Nat), NEW behind \in Nat, NEW f, NEW i \in 1..(Len(text) + 2),
           NEW pct \in BOOLEAN,
           \A j \in 1..(Len(text) + 2), p \in BOOLEAN : j > i => f[<<j, p>>] \in Seq(Int)
    PROVE  DecodeAt(text, behind, f, i, pct) \in Seq(Int)
<1>1. \A c \in Nat : HexValue(c) \in Int
  <2>1. \A c \in Nat : ToLower(c) \in Int
    BY DEF ToLower
  <2> QED
    BY <2>1 DEF HexValue
<1>2. \A k \in Nat \ {0} : CharAt(text, behind, k) \in Nat
  BY DEF CharAt
<1>3. CASE i > Len(text)
  <2>1. <<>> \in Seq(Int)
    OBVIOUS
  <2> QED
    BY <1>3, <2>1 DEF DecodeAt
<1>4. CASE i <= Len(text)
  <2>1. /\ f[<<i + 1, TRUE>>] \in Seq(Int) /\ f[<<i + 1, FALSE>>] \in Seq(Int)
        /\ f[<<i + 2, TRUE>>] \in Seq(Int) /\ f[<<i + 2, AfterEscape>>] \in Seq(Int)
    <3>1. i + 1 \in 1..(Len(text) + 2) /\ i + 2 \in 1..(Len(text) + 2) /\ i + 1 > i /\ i + 2 > i
      BY <1>4
    <3>2. TRUE \in BOOLEAN /\ FALSE \in BOOLEAN /\ AfterEscape = FALSE
      BY DEF AfterEscape
    <3> QED
      BY <3>1, <3>2
  <2>2. CharAt(text, behind, i) \in Int
    BY <1>2
  <2>3. 16 * HexValue(CharAt(text, behind, i)) + HexValue(CharAt(text, behind, i + 1)) \in Int
    <3> DEFINE a == CharAt(text, behind, i)
               b == CharAt(text, behind, i + 1)
    <3>1. a \in Nat /\ b \in Nat
      BY <1>2
    <3>2. HexValue(a) \in Int /\ HexValue(b) \in Int
      BY <1>1, <3>1
    <3>3. \A u, v \in Int : 16 * u + v \in Int
      OBVIOUS
    <3> QED
      BY <3>2, <3>3, Zenon
  <2>4. \A c \in Int, t \in Seq(Int) : <<c>> \o t \in Seq(Int)
    BY ConcatProperties
  <2> QED
    BY <1>4, <2>1, <2>2, <2>3, <2>4 DEF DecodeAt
<1> QED
  BY <1>3, <1>4

\* setPath() is the result of a function that satisfies the steps.
LEMMA DecodeIs ==
    ASSUME NEW text \in Seq(Nat), NEW behind \in Nat
    PROVE  \E f : /\ setPath(text, behind) = f[<<1, FALSE>>]
                  /\ \A i \in 1..(Len(text) + 2), pct \in BOOLEAN :
                        /\ f[<<i, pct>>] \in Seq(Int)
                        /\ f[<<i, pct>>] = DecodeAt(text, behind, f, i, pct)
<1> DEFINE N == Len(text) + 2
           D == (1..N) \X BOOLEAN
           V == Seq(Int)
           rank == [x \in D |-> N - x[1]]
           H == [x \in D \X [D -> V] |-> DecodeAt(text, behind, x[2], x[1][1], x[1][2])]
           F(h) == [x \in D |-> DecodeAt(text, behind, h, x[1], x[2])]
           g == CHOOSE h : h = F(h)
<1>0. N \in Nat
  OBVIOUS
<1>1. ASSUME NEW x \in D, NEW f \in [D -> V] PROVE DecodeAt(text, behind, f, x[1], x[2]) \in V
  <2>1. \A j \in 1..N, p \in BOOLEAN : f[<<j, p>>] \in V
    OBVIOUS
  <2> QED
    BY <2>1, DecodeType
<1>2. H \in [D \X [D -> V] -> V]
  <2> HIDE DEF D, V
  <2> QED
    BY <1>1
<1>3. ASSUME NEW x \in D, NEW f \in [D -> V], NEW h \in [D -> V],
             \A y \in D : rank[y] < rank[x] => f[y] = h[y]
      PROVE  H[<<x, f>>] = H[<<x, h>>]
  <2>1. ASSUME NEW j \in 1..N, NEW p \in BOOLEAN, j > x[1] PROVE f[<<j, p>>] = h[<<j, p>>]
    <3>1. <<j, p>> \in D /\ rank[<<j, p>>] < rank[x]
      BY <2>1
    <3> QED
      BY <1>3, <3>1
  <2>2. DecodeAt(text, behind, f, x[1], x[2]) = DecodeAt(text, behind, h, x[1], x[2])
    <3>1. CASE x[1] > Len(text)
      BY <3>1 DEF DecodeAt
    <3>2. CASE x[1] <= Len(text)
      <4>1. /\ f[<<x[1] + 1, TRUE>>] = h[<<x[1] + 1, TRUE>>]
            /\ f[<<x[1] + 1, FALSE>>] = h[<<x[1] + 1, FALSE>>]
            /\ f[<<x[1] + 2, TRUE>>] = h[<<x[1] + 2, TRUE>>]
            /\ f[<<x[1] + 2, AfterEscape>>] = h[<<x[1] + 2, AfterEscape>>]
        <5>1. /\ x[1] + 1 \in 1..N /\ x[1] + 2 \in 1..N
              /\ x[1] + 1 > x[1] /\ x[1] + 2 > x[1]
          BY <3>2
        <5>2. TRUE \in BOOLEAN /\ FALSE \in BOOLEAN /\ AfterEscape = FALSE
          BY DEF AfterEscape
        <5> QED
          BY <2>1, <5>1, <5>2
      <4> QED
        BY <4>1 DEF DecodeAt
    <3> QED
      BY <3>1, <3>2
  <2> HIDE DEF D, V
  <2> QED
    BY <2>2
<1>4. \E f \in [D -> V] : \A x \in D : f[x] = H[<<x, f>>]
  <2>1. <<>> \in V
    OBVIOUS
  <2>2. rank \in [D -> 0..N]
    OBVIOUS
  <2> HIDE DEF D, V, rank, H, N
  <2>3. Recursion(D, V, rank, N, H)
    BY <1>0, <1>2, <1>3, <2>1, <2>2 DEF Recursion
  <2> QED
    BY <2>3, RecursiveFunction
<1>5. g = F(g)
  <2>1. PICK f \in [D -> V] : \A x \in D : f[x] = DecodeAt(text, behind, f, x[1], x[2])
    <3> HIDE DEF D, V
    <3> QED
      BY <1>4
  <2>2. f = F(f)
    <3> HIDE DEF D, V
    <3> QED
      BY <2>1
  <2> HIDE DEF F
  <2> QED
    BY <2>2
<1>6. setPath(text, behind) = g[<<1, FALSE>>]
  BY Zenon DEF setPath, DecodeAt, CharAt
<1> HIDE DEF g
<1>7. \A i \in 1..N, pct \in BOOLEAN : g[<<i, pct>>] = DecodeAt(text, behind, g, i, pct)
  BY <1>5
<1>8. \A i \in 1..N, pct \in BOOLEAN : g[<<i, pct>>] \in V
  <2> DEFINE T == {n \in Nat : n < N /\ \E pct \in BOOLEAN : g[<<N - n, pct>>] \notin V}
  <2>1. SUFFICES ASSUME T # {} PROVE FALSE
    <3>1. ASSUME NEW i \in 1..N, NEW pct \in BOOLEAN, g[<<i, pct>>] \notin V PROVE FALSE
      <4>1. N - i \in Nat /\ N - i < N /\ N - (N - i) = i
        OBVIOUS
      <4>2. N - i \in T
        BY <3>1, <4>1
      <4> QED
        BY <2>1, <4>2
    <3> QED
      BY <3>1
  <2>2. PICK n \in T : \A m \in T : n <= m
    BY <2>1, LeastOf
  <2>3. PICK pct \in BOOLEAN : g[<<N - n, pct>>] \notin V
    BY <2>2
  <2>4. N - n \in 1..N /\ n \in Nat
    BY <2>2
  <2>5. ASSUME NEW j \in 1..N, NEW p \in BOOLEAN, j > N - n PROVE g[<<j, p>>] \in V
    <3>1. N - j \in Nat /\ N - j < N /\ N - (N - j) = j /\ N - j < n
      BY <2>4, <2>5
    <3>2. N - j \notin T
      <4> HIDE DEF T
      <4> QED
        BY <2>2, <2>4, <3>1
    <3> QED
      BY <3>1, <3>2
  <2>6. DecodeAt(text, behind, g, N - n, pct) \in V
    BY <2>4, <2>5, DecodeType
  <2> QED
    BY <1>7, <2>3, <2>4, <2>6
<1> QED
  BY <1>6, <1>7, <1>8

\* Where the next character goes.
LEMMA PlaceNext ==
    ASSUME NEW text \in Seq(Nat), NEW i \in Nat \ {0}
    PROVE  /\ Place(text, 1) = 1
           /\ Place(text, i) \in Int
           /\ Place(text, i + 1) = Place(text, i) + (IF text[i] = Percent THEN -1 ELSE 1)
<1> DEFINE P(n) == {j \in 1..(n - 1) : text[j] = Percent}
<1>1. \A n \in Nat : IsFiniteSet(P(n)) /\ Cardinality(P(n)) \in Nat
  <2>1. \A n \in Nat : IsFiniteSet(1..(n - 1)) /\ P(n) \subseteq 1..(n - 1)
    BY FS_Interval
  <2> HIDE DEF P
  <2> QED
    BY <2>1, FS_Subset, FS_CardinalityType
<1>2. Place(text, 1) = 1
  <2>1. P(1) = {}
    OBVIOUS
  <2>2. Cardinality({}) = 0
    BY FS_EmptySet
  <2> QED
    BY <2>1, <2>2 DEF Place
<1>3. Cardinality(P(i + 1)) = Cardinality(P(i)) + (IF text[i] = Percent THEN 1 ELSE 0)
  <2>1. CASE text[i] = Percent
    <3>1. P(i + 1) = P(i) \cup {i} /\ i \notin P(i)
      BY <2>1
    <3> HIDE DEF P
    <3> QED
      BY <1>1, <2>1, <3>1, FS_AddElement
  <2>2. CASE text[i] # Percent
    <3>1. P(i + 1) = P(i)
      BY <2>2
    <3> HIDE DEF P
    <3> QED
      BY <1>1, <2>2, <3>1
  <2> QED
    BY <2>1, <2>2
<1>4. Cardinality(P(i)) \in Nat
  BY <1>1
<1>5. /\ Place(text, i) = i - 2 * Cardinality(P(i))
      /\ Place(text, i + 1) = (i + 1) - 2 * Cardinality(P(i + 1))
  BY DEF Place
<1> HIDE DEF P
<1>6. \A c \in Nat : i - 2 * c \in Int /\ (i + 1) - 2 * c = (i - 2 * c) + 1
                    /\ (i + 1) - 2 * (c + 1) = (i - 2 * c) + (-1)
  OBVIOUS
<1>7. Place(text, i) \in Int
  BY <1>4, <1>5, <1>6
<1>8. CASE text[i] = Percent
  BY <1>2, <1>3, <1>4, <1>5, <1>6, <1>7, <1>8
<1>9. CASE text[i] # Percent
  <2>1. Cardinality(P(i + 1)) = Cardinality(P(i))
    BY <1>3, <1>4, <1>9
  <2> QED
    BY <1>2, <1>4, <1>5, <1>6, <1>7, <1>9, <2>1
<1> QED
  BY <1>8, <1>9

\* A digit of an escape is no percent sign.
LEMMA HexIsNoPercent == ~IsHex(Percent)
BY DEF IsHex, IsDigit, ToLower, Percent

(***************************************************************************)
(* As far as the text holds no broken escape, the decoder is outside an    *)
(* escape at every character that is not a digit of one, and what it then  *)
(* makes of the rest is what that stands for.                              *)
(***************************************************************************)
LEMMA DecoderExact ==
    ASSUME NEW text \in Seq(Nat), NEW behind \in Nat, NEW n \in 0..Len(text),
           WellEscaped(text, n)
    PROVE  /\ Decodes(setPath(text, behind), text, n)
           /\ n = Len(text) => Len(setPath(text, behind)) = Place(text, n + 1) - 1
<1> DEFINE L == Len(text)
           at(k) == Place(text, k)
<1>0. L \in Nat /\ n \in Nat /\ n <= L
  OBVIOUS
<1>1. PICK f : /\ setPath(text, behind) = f[<<1, FALSE>>]
               /\ \A i \in 1..(L + 2), pct \in BOOLEAN :
                     /\ f[<<i, pct>>] \in Seq(Int)
                     /\ f[<<i, pct>>] = DecodeAt(text, behind, f, i, pct)
  BY DecodeIs
<1> DEFINE out(i) == f[<<i, FALSE>>]
           Exact(i) ==
              /\ at(i) <= at(n + 1)
              /\ Len(out(i)) >= at(n + 1) - at(i)
              /\ n = L => Len(out(i)) = at(n + 1) - at(i)
              /\ \A j \in i..n : ~Escaped(text, j) =>
                    /\ at(i) <= at(j) /\ at(j) < at(n + 1)
                    /\ out(i)[at(j) - at(i) + 1] = Decoded(text, j)
<1>2. ASSUME NEW i \in 1..(L + 2) PROVE out(i) \in Seq(Int) /\ Len(out(i)) \in Nat
  <2>1. FALSE \in BOOLEAN
    OBVIOUS
  <2>2. out(i) \in Seq(Int)
    BY <1>1, <2>1, Zenon
  <2> QED
    BY <2>2
<1>3. \A k \in Nat \ {0} : at(k) \in Int
  BY PlaceNext
<1>4. Exact(n + 1)
  <2>1. n + 1 \in 1..(L + 2) /\ n + 1 \in Nat \ {0} /\ \A j \in (n + 1)..n : FALSE
    BY <1>0
  <2>2. at(n + 1) \in Int /\ at(n + 1) - at(n + 1) = 0 /\ at(n + 1) <= at(n + 1)
    BY <1>3, <2>1
  <2>3. Len(out(n + 1)) >= 0
    BY <1>2, <2>1
  <2>4. n = L => Len(out(n + 1)) = 0
    <3>1. FALSE \in BOOLEAN
      OBVIOUS
    <3>2. out(n + 1) = DecodeAt(text, behind, f, n + 1, FALSE)
      BY <1>1, <2>1, <3>1, Zenon
    <3>3. n = L => n + 1 > Len(text)
      BY <1>0
    <3>4. n = L => out(n + 1) = <<>>
      BY <3>2, <3>3 DEF DecodeAt
    <3> QED
      BY <3>4
  <2>5. at(n + 1) <= at(n + 1) /\ Len(out(n + 1)) >= at(n + 1) - at(n + 1)
        /\ (n = L => Len(out(n + 1)) = at(n + 1) - at(n + 1))
    BY <2>2, <2>3, <2>4
  <2> HIDE DEF at, out
  <2> QED
    BY <2>1, <2>5
<1>5. ASSUME NEW i \in 1..n, NEW k \in (i + 1)..(n + 1), Exact(k),
             out(i) = <<Decoded(text, i)>> \o out(k), at(k) = at(i) + 1,
             \A j \in (i + 1)..(k - 1) : Escaped(text, j)
      PROVE  Exact(i)
  <2> DEFINE v == Decoded(text, i)
  <2>0. i \in Nat \ {0} /\ k \in Nat \ {0} /\ n + 1 \in Nat \ {0} /\ k <= n + 1
        /\ i \in 1..(L + 2) /\ k \in 1..(L + 2)
    BY <1>0
  <2>1. at(i) \in Int /\ at(k) \in Int /\ at(n + 1) \in Int
    BY <1>3, <2>0
  <2>2. out(k) \in Seq(Int) /\ out(i) \in Seq(Int) /\ Len(out(k)) \in Nat
    BY <1>2, <2>0
  <2> HIDE DEF out, at, v
  <2>3. out(i) = <<v>> \o out(k)
    BY <1>5 DEF v
  <2>4. v \in Int
    <3>1. 1 \in 1..Len(out(i))
      BY <2>2, <2>3
    <3>2. out(i)[1] = v
      BY <2>2, <2>3
    <3> QED
      BY <2>2, <3>1, <3>2
  <2>5. Len(out(i)) = Len(out(k)) + 1 /\ out(i)[1] = v
        /\ \A m \in 1..Len(out(k)) : out(i)[m + 1] = out(k)[m]
    BY <2>2, <2>3, <2>4
  <2>9. at(k) = at(i) + 1
    BY <1>5
  <2>6. /\ at(k) <= at(n + 1) /\ Len(out(k)) >= at(n + 1) - at(k)
        /\ n = L => Len(out(k)) = at(n + 1) - at(k)
    BY <1>5
  <2>7. ASSUME NEW j \in i..n, ~Escaped(text, j)
        PROVE  /\ at(i) <= at(j) /\ at(j) < at(n + 1)
               /\ out(i)[at(j) - at(i) + 1] = Decoded(text, j)
    <3>1. CASE j = i
      <4>1. at(j) - at(i) + 1 = 1
        BY <2>1, <3>1
      <4> QED
        BY <2>1, <2>5, <2>6, <2>9, <3>1, <4>1 DEF v
    <3>2. CASE j # i
      <4>1. j \in k..n /\ j \in Nat \ {0}
        <5>1. j \notin (i + 1)..(k - 1)
          BY <1>5, <2>7
        <5> QED
          BY <1>0, <2>0, <3>2, <5>1
      <4>2. at(j) \in Int
        BY <1>3, <4>1 DEF at
      <4>3. /\ at(k) <= at(j) /\ at(j) < at(n + 1)
            /\ out(k)[at(j) - at(k) + 1] = Decoded(text, j)
        BY <1>5, <2>7, <4>1
      <4> DEFINE m == at(j) - at(k) + 1
      <4>4. m \in 1..Len(out(k)) /\ m + 1 = at(j) - at(i) + 1 /\ at(i) <= at(j)
        <5>1. \A x, y, z, w \in Int : \A len \in Nat :
                 (y = x + 1 /\ len >= z - y /\ y <= w /\ w < z) =>
                    w - y + 1 \in 1..len /\ (w - y + 1) + 1 = w - x + 1 /\ x <= w
          OBVIOUS
        <5> QED
          BY <2>1, <2>2, <2>6, <2>9, <4>2, <4>3, <5>1
      <4>5. out(i)[m + 1] = out(k)[m]
        BY <2>5, <4>4
      <4> QED
        BY <4>3, <4>4, <4>5
    <3> QED
      BY <3>1, <3>2
  <2>8. at(i) <= at(n + 1) /\ Len(out(i)) >= at(n + 1) - at(i)
        /\ (n = L => Len(out(i)) = at(n + 1) - at(i))
    <3>1. /\ at(i) <= at(n + 1) /\ Len(out(k)) + 1 >= at(n + 1) - at(i)
          /\ Len(out(k)) = at(n + 1) - at(k) => Len(out(k)) + 1 = at(n + 1) - at(i)
      <4> DEFINE x == at(i)
                 y == at(k)
                 z == at(n + 1)
                 len == Len(out(k))
      <4>1. x \in Int /\ y \in Int /\ z \in Int /\ len \in Nat
        BY <2>1, <2>2
      <4>2. y = x + 1 /\ y <= z /\ len >= z - y
        BY <2>6, <2>9
      <4> HIDE DEF x, y, z, len
      <4>3. x <= z /\ len + 1 >= z - x /\ (len = z - y => len + 1 = z - x)
        BY <4>1, <4>2
      <4> QED
        BY <4>3 DEF x, y, z, len
    <3> QED
      BY <2>5, <2>6, <3>1
  <2> QED
    BY <2>7, <2>8
<1>6. ASSUME NEW i \in 1..n, ~Escaped(text, i),
             \A k \in (i + 1)..(n + 1) : ~Escaped(text, k) \/ k = n + 1 => Exact(k)
      PROVE  Exact(i)
  <2>0. i \in Nat \ {0} /\ i <= L /\ i \in 1..(L + 2) /\ i + 1 \in 1..(L + 2)
    BY <1>0
  <2>1. out(i) = DecodeAt(text, behind, f, i, FALSE)
    <3>1. FALSE \in BOOLEAN
      OBVIOUS
    <3> QED
      BY <1>1, <2>0, <3>1
  <2>2. \A k \in 1..L : CharAt(text, behind, k) = text[k]
    BY DEF CharAt
  <2>3. CASE text[i] # Percent
    <3>1. out(i) = <<Decoded(text, i)>> \o out(i + 1)
      <4>1. CharAt(text, behind, i) = text[i] /\ ~(i > Len(text))
        BY <2>0, <2>2
      <4> QED
        BY <2>1, <2>3, <4>1 DEF DecodeAt, Decoded
    <3>2. at(i + 1) = at(i) + 1
      BY <2>0, <2>3, PlaceNext
    <3>3. ~Escaped(text, i + 1)
      <4>1. (i + 1) - 1 = i /\ (i + 1) - 2 = i - 1 /\ (i + 1 > 2 => i > 1)
        BY <2>0
      <4> QED
        BY <1>6, <2>3, <4>1 DEF Escaped
    <3>4. i + 1 \in (i + 1)..(n + 1) /\ \A j \in (i + 1)..((i + 1) - 1) : FALSE
      BY <1>0, <2>0
    <3>5. Exact(i + 1)
      BY <1>6, <3>3, <3>4
    <3> HIDE DEF Exact, out, at
    <3> QED
      BY <1>5, <3>1, <3>2, <3>4, <3>5
  <2>4. CASE text[i] = Percent
    <3>1. i + 2 <= n /\ IsHex(text[i + 1]) /\ IsHex(text[i + 2])
      BY <2>4 DEF WellEscaped
    <3>2. text[i + 1] # Percent /\ text[i + 2] # Percent
      BY <3>1, HexIsNoPercent
    <3>3. out(i) = <<Decoded(text, i)>> \o out(i + 3)
      <4>1. /\ CharAt(text, behind, i) = text[i] /\ CharAt(text, behind, i + 1) = text[i + 1]
            /\ CharAt(text, behind, (i + 1) + 1) = text[i + 2]
            /\ ~(i > Len(text)) /\ ~(i + 1 > Len(text))
            /\ (i + 1) + 1 = i + 2 /\ (i + 1) + 2 = i + 3
        BY <1>0, <2>0, <2>2, <3>1
      <4>2. out(i) = f[<<i + 1, TRUE>>]
        BY <2>1, <2>4, <4>1 DEF DecodeAt
      <4>3. f[<<i + 1, TRUE>>] = DecodeAt(text, behind, f, i + 1, TRUE)
        <5>1. TRUE \in BOOLEAN
          OBVIOUS
        <5> QED
          BY <1>1, <2>0, <5>1
      <4>4. DecodeAt(text, behind, f, i + 1, TRUE) = <<Decoded(text, i)>> \o out(i + 3)
        BY <2>4, <3>1, <4>1 DEF DecodeAt, Decoded, AfterEscape
      <4> QED
        BY <4>2, <4>3, <4>4
    <3>4. at(i + 3) = at(i) + 1
      <4>1. /\ at(i + 1) = at(i) + (-1) /\ at((i + 1) + 1) = at(i + 1) + 1
            /\ at((i + 2) + 1) = at(i + 2) + 1
        <5>1. i + 1 \in Nat \ {0} /\ i + 2 \in Nat \ {0}
          BY <2>0
        <5>2. at(i + 1) = at(i) + (-1)
          BY <2>0, <2>4, PlaceNext
        <5>3. at((i + 1) + 1) = at(i + 1) + 1
          BY <3>2, <5>1, PlaceNext
        <5>4. at((i + 2) + 1) = at(i + 2) + 1
          BY <3>2, <5>1, PlaceNext
        <5> QED
          BY <5>2, <5>3, <5>4
      <4>2. (i + 1) + 1 = i + 2 /\ (i + 2) + 1 = i + 3 /\ at(i) \in Int
        BY <1>3, <2>0
      <4> HIDE DEF at
      <4> QED
        BY <4>1, <4>2
    <3>5. ~Escaped(text, i + 3)
      <4>1. (i + 3) - 1 = i + 2 /\ (i + 3) - 2 = i + 1
        BY <2>0
      <4> QED
        BY <3>2, <4>1 DEF Escaped
    <3>6. Escaped(text, i + 1) /\ Escaped(text, i + 2)
      <4>1. (i + 1) - 1 = i /\ i + 1 > 1 /\ (i + 2) - 2 = i /\ i + 2 > 2
        BY <2>0
      <4> QED
        BY <2>4, <4>1 DEF Escaped
    <3>7. i + 3 \in (i + 1)..(n + 1) /\ \A j \in (i + 1)..((i + 3) - 1) : j = i + 1 \/ j = i + 2
      BY <1>0, <2>0, <3>1
    <3>8. Exact(i + 3) /\ \A j \in (i + 1)..((i + 3) - 1) : Escaped(text, j)
      BY <1>6, <3>5, <3>6, <3>7
    <3> HIDE DEF Exact, out, at
    <3> QED
      BY <1>5, <3>3, <3>4, <3>7, <3>8
  <2> QED
    BY <2>3, <2>4
<1>7. \A i \in 1..(n + 1) : ~Escaped(text, i) \/ i = n + 1 => Exact(i)
  <2> DEFINE T == {m \in 0..n : (~Escaped(text, (n + 1) - m) \/ m = 0) /\ ~Exact((n + 1) - m)}
  <2> HIDE DEF Exact
  <2>1. SUFFICES ASSUME T # {} PROVE FALSE
    <3>1. ASSUME NEW i \in 1..(n + 1), ~Escaped(text, i) \/ i = n + 1, ~Exact(i) PROVE FALSE
      <4>1. (n + 1) - i \in 0..n /\ (n + 1) - ((n + 1) - i) = i /\ (i = n + 1 => (n + 1) - i = 0)
        BY <1>0
      <4>2. (n + 1) - i \in T
        BY <3>1, <4>1
      <4> QED
        BY <2>1, <4>2
    <3> QED
      BY <3>1
  <2>2. PICK m \in T : \A l \in T : m <= l
    <3>1. T \subseteq Nat
      OBVIOUS
    <3> QED
      BY <2>1, <3>1, LeastOf
  <2>3. m \in 0..n /\ m # 0 /\ ~Exact((n + 1) - m) /\ ~Escaped(text, (n + 1) - m)
    <3>1. (n + 1) - 0 = n + 1
      BY <1>0
    <3> QED
      BY <1>4, <2>2, <3>1
  <2>4. (n + 1) - m \in 1..n
    BY <1>0, <2>3
  <2>5. ASSUME NEW k \in (((n + 1) - m) + 1)..(n + 1), ~Escaped(text, k) \/ k = n + 1, ~Exact(k)
        PROVE  FALSE
    <3>1. (n + 1) - k \in 0..n /\ (n + 1) - ((n + 1) - k) = k /\ (n + 1) - k < m
          /\ (k = n + 1 => (n + 1) - k = 0)
      BY <1>0, <2>3
    <3>2. (n + 1) - k \in T
      BY <2>5, <3>1
    <3>3. m <= (n + 1) - k
      <4> HIDE DEF T
      <4> QED
        BY <2>2, <3>2
    <3> QED
      BY <1>0, <2>3, <3>1, <3>3
  <2> QED
    BY <1>6, <2>3, <2>4, <2>5
<1>8. Exact(1) /\ at(1) = 1
  <2>1. 1 \in 1..(n + 1)
    BY <1>0
  <2>2. ~Escaped(text, 1)
    BY DEF Escaped
  <2>3. at(1) = 1
    BY PlaceNext
  <2> HIDE DEF Exact
  <2> QED
    BY <1>7, <2>1, <2>2, <2>3
<1>9. at(n + 1) \in Int /\ out(1) = setPath(text, behind)
  BY <1>0, <1>1, <1>3
<1>10. ASSUME NEW j \in 1..n, ~Escaped(text, j) PROVE out(1)[at(j)] = Decoded(text, j)
  <2>1. at(j) \in Int /\ at(j) - 1 + 1 = at(j)
    BY <1>3
  <2> HIDE DEF at, out
  <2> QED
    BY <1>8, <1>10, <2>1
<1>11. Len(out(1)) >= at(n + 1) - 1 /\ (n = L => Len(out(1)) = at(n + 1) - 1)
  <2> HIDE DEF at, out
  <2> QED
    BY <1>8
<1> QED
  BY <1>9, <1>10, <1>11 DEF Decodes

-----------------------------------------------------------------------------
(* The request.                                                            *)

\* The target is a sequence of characters, of which the path is a part.
TargetInv == target \in Seq(Nat)

\* The part in front of the query is a text that setPath() can decode.
LEMMA PathIsText ==
    ASSUME TargetInv
    PROVE  PathOf(target) \in Seq(Nat) /\ BehindPath(target) \in Nat
<1>1. BehindPath(target) \in Nat
  BY DEF BehindPath, Space, Question
<1>2. CASE Questions(target) = {}
  BY <1>1, <1>2, SubSeqProperties DEF PathOf, TargetInv
<1>3. CASE Questions(target) # {}
  <2> DEFINE q == CHOOSE i \in Questions(target) : \A j \in Questions(target) : i <= j
  <2>1. Questions(target) \subseteq 1..Len(target) /\ Len(target) \in Nat
    BY DEF Questions, TargetInv
  <2>2. \E i \in Questions(target) : \A j \in Questions(target) : i <= j
    BY <1>3, <2>1, LeastOf
  <2>3. q \in Questions(target)
    BY <2>2
  <2>4. q \in 1..Len(target)
    <3> HIDE DEF q
    <3> QED
      BY <2>1, <2>3
  <2>5. PathOf(target) = SubSeq(target, 1, q - 1)
    BY <1>3, Zenon DEF PathOf
  <2> HIDE DEF q
  <2>6. SubSeq(target, 1, q - 1) \in Seq(Nat)
    <3>1. q - 1 \in 0..Len(target)
      BY <2>1, <2>4
    <3> QED
      BY <3>1, SubSeqProperties DEF TargetInv
  <2> QED
    BY <1>1, <2>5, <2>6
<1> QED
  BY <1>2, <1>3

\* What a decoder filled from the target alone hands to onRequest().
LEMMA OwnLineExact == TargetInv /\ OwnLineOnly => RequestExact
<1> SUFFICES ASSUME TargetInv, OwnLineOnly PROVE RequestExact
  OBVIOUS
<1> DEFINE text == PathOf(target)
           behind == BehindPath(target)
<1>1. text \in Seq(Nat) /\ behind \in Nat
  BY PathIsText
<1>2. <<>> \o setPath(text, behind) = setPath(text, behind)
  <2>1. setPath(text, behind) \in Seq(Int)
    <3> HIDE DEF text, behind
    <3>1. PICK f : /\ setPath(text, behind) = f[<<1, FALSE>>]
                   /\ \A i \in 1..(Len(text) + 2), pct \in BOOLEAN :
                         f[<<i, pct>>] \in Seq(Int)
      BY <1>1, DecodeIs, Zenon
    <3>2. 1 \in 1..(Len(text) + 2) /\ FALSE \in BOOLEAN
      BY <1>1
    <3> QED
      BY <3>1, <3>2, Zenon
  <2> QED
    BY <2>1, ConcatEmptySeq
<1>3. connected /\ pc = "done" => path_ = setPath(text, behind)
  BY <1>2 DEF OwnLineOnly, PathOfTarget
<1>4. ASSUME NEW n \in 1..Len(text), WellEscaped(text, n)
      PROVE  Decodes(setPath(text, behind), text, n)
  <2> HIDE DEF text, behind
  <2>1. n \in 0..Len(text)
    BY <1>1
  <2> QED
    BY <1>1, <1>4, <2>1, DecoderExact
<1>5. ASSUME WellEscaped(text, Len(text))
      PROVE  Len(setPath(text, behind)) = Place(text, Len(text) + 1) - 1
  <2> HIDE DEF text, behind
  <2>1. Len(text) \in 0..Len(text)
    BY <1>1
  <2> QED
    BY <1>1, <1>5, <2>1, DecoderExact
<1>6. connected => ~reused
  BY DEF OwnLineOnly
<1> HIDE DEF text, behind
<1>7. connected =>
        /\ ~reused
        /\ pc = "done" =>
            /\ \A n \in 1..Len(text) : WellEscaped(text, n) => Decodes(path_, text, n)
            /\ WellEscaped(text, Len(text)) => Len(path_) = Place(text, Len(text) + 1) - 1
  BY <1>3, <1>4, <1>5, <1>6
<1> QED
  BY <1>7, Zenon DEF RequestExact, text

\* The client chooses one target, once.
LEMMA TargetStep == TargetInv /\ [Next]_vars => TargetInv'
BY DEF TargetInv, Next, OnMessage, Receive, ParseRequestLine, BadRequest, ParseHeader,
   ParseHeadersEnd, ParseNeedsMore, OnRequest, clientVars, vars

\* Until a request line is rejected, onRequest() is handed the path that the
\* client meant, every escape decoded, whatever the target is and however it
\* arrived: setPath(), reset() and the assertion of setMethod().
THEOREM PathsExact == Spec => []RequestExact
<1>1. Init => TargetInv
  BY InputsAssumption DEF Init, TargetInv
<1>2. Spec => []TargetInv
  BY <1>1, TargetStep, PTL DEF Spec
<1>3. HttpInv => OwnLineOnly
  BY DEF HttpInv, DoneInv, RequestInv, OwnLineOnly
<1> QED
  BY <1>2, <1>3, HttpInvHolds, OwnLineExact, PTL
=============================================================================

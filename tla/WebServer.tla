------------------------------ MODULE WebServer ------------------------------
(***************************************************************************)
(* The WebServer example on one connection: requests that name files, the  *)
(* header of each response in outBuffer_, and the file that setSendFd()    *)
(* leaves for handleWrite() to send behind it.  Everything happens on the  *)
(* loop thread, without application callbacks in between, so a handler is  *)
(* one step.  Parsing is HttpServer's; the rest of TcpConnection is        *)
(* TcpConnection's.                                                        *)
(*                                                                         *)
(* On the wire a header is the unit <<i, "header">> and a byte of a file   *)
(* <<i, "file">>, i being the number of the request.                       *)
(***************************************************************************)
EXTENDS Integers, Sequences, SequencesExt

CONSTANTS
    Paths,      \* what a request may name, in a directory or not
    Stat,       \* what fstatat() and openat() say of each path, see below
    Indexes,    \* location_.indexs: for each directory the paths of its indexes
    Requests    \* the sequences of requests a client may send

None == 0

(***************************************************************************)
(* Of a path: is it empty, which fstatat() never gets to see, does it      *)
(* exist, is it a directory, its st_size, does openat() succeed, and does  *)
(* its name have a suffix.                                                 *)
(***************************************************************************)
ASSUME WebAssumption ==
    /\ Stat \in [Paths -> [empty : BOOLEAN, exists : BOOLEAN, dir : BOOLEAN, size : Nat,
                           opens : BOOLEAN, suffix : BOOLEAN]]
    /\ \A p \in Paths : Stat[p].empty => ~Stat[p].exists
    /\ Indexes \in [Paths -> Seq(Paths)]
    /\ \A reqs \in Requests : reqs \in Seq([path : Paths, close : BOOLEAN])

VARIABLES
    requests,    \* what the client sends, in full
    next,        \* the number of the next request onRequest() gets
    alive,       \* the server has not died of an exception
    state_,      \* state_ of the connection
    writing,     \* channel_.isWriting()
    outBuffer_,  \* the readable bytes of outBuffer_
    sendFd_,     \* the request whose file sendFd_ is; None for no file, or -1
    left,        \* sbuf_.st_size
    open,        \* the requests whose file is open
    fin,         \* ::shutdown(SHUT_WR) was called
    wire,        \* what the kernel accepted, in order
    overlapped   \* history: a request came while a file was being sent, or while
                 \* the output of a shut down connection was pending

connVars == <<state_, writing, outBuffer_, fin, wire>>
fileVars == <<sendFd_, left, open>>
vars == <<requests, next, alive, connVars, fileVars, overlapped>>

Init ==
    /\ requests \in Requests /\ next = 1
    /\ alive = TRUE
    /\ state_ = "kConnected" /\ writing = FALSE /\ outBuffer_ = <<>>
    /\ sendFd_ = None /\ left = 0 /\ open = {}
    /\ fin = FALSE /\ wire = <<>>
    /\ overlapped = FALSE

-----------------------------------------------------------------------------
(* WebServer::onRequest().                                                 *)

\* The file a path stands for: itself, or the first index of a directory that
\* exists.  The empty sequence is a 404.
Resolve(path) ==
    LET indexes == Indexes[path]
        first == {i \in 1..Len(indexes) : /\ Stat[indexes[i]].exists
                                          /\ \A j \in 1..(i - 1) : ~Stat[indexes[j]].exists}
    IN  IF ~Stat[path].exists THEN <<>>
        ELSE IF ~Stat[path].dir THEN <<path>>
        ELSE IF first = {} THEN <<>>
        ELSE <<indexes[CHOOSE i \in first : TRUE]>>

\* substr(1) throws on an empty path, and on an empty suffix: neither the path
\* nor an index gave one.
Throws(path) ==
    \/ Stat[path].empty
    \/ Stat[path].exists /\ ~Stat[path].dir /\ ~Stat[path].suffix

\* openat(), fstatat() and setSendFd(): whatever sendFd_ was is forgotten.
SetSendFd(path) ==
    IF Resolve(path) = <<>> THEN UNCHANGED fileVars
    ELSE LET file == Resolve(path)[1]
         IN  /\ sendFd_' = IF Stat[file].opens THEN next ELSE None
             /\ left' = Stat[file].size
             /\ open' = open \cup (IF Stat[file].opens THEN {next} ELSE {})

\* HttpResponse::appendToBuffer(), the body of a response being a file.
Header(i) == << <<i, "header">> >>

\* Wrong: a header that was written at once does not start the file.
Rest_HeaderOnly(n) == n < 1

\* The last test of sendInLoop(): part of the header, or a file, is left.
Rest(n) == n < 1 \/ left' # 0

\* send(): nothing unless kConnected; the header is written or buffered.
Send ==
    IF state_ # "kConnected" THEN UNCHANGED <<writing, outBuffer_, wire>>
    ELSE \E n \in IF ~writing /\ outBuffer_ = <<>> THEN {0, 1} ELSE {0} :
         /\ wire' = wire \o SubSeq(Header(next), 1, n)
         /\ outBuffer_' = outBuffer_ \o SubSeq(Header(next), n + 1, 1)
         /\ writing' = (writing \/ Rest(n))

\* shutdown() of a response that closes the connection.
Shutdown(close) ==
    /\ state_' = IF close /\ state_ = "kConnected" THEN "kDisconnecting" ELSE state_
    /\ fin' = (fin \/ (state_' # state_ /\ ~writing'))

(***************************************************************************)
(* HttpServer::onRequest() with WebServer::onRequest() as its callback.    *)
(* Requests are read, and files opened, after a shutdown() too.            *)
(***************************************************************************)
OnRequest ==
    /\ alive /\ state_ # "kDisconnected"
    /\ next <= Len(requests)
    /\ next' = next + 1
    /\ SetSendFd(requests[next].path)
    /\ overlapped' = (overlapped \/ left # 0 \/ (writing /\ state_ = "kDisconnecting"))
    /\ alive' = ~Throws(requests[next].path)
    /\ IF alive' THEN Send /\ Shutdown(requests[next].close) ELSE UNCHANGED connVars
    /\ UNCHANGED requests

-----------------------------------------------------------------------------
(* TcpConnection::handleWrite().                                           *)

Drained ==
    /\ writing' = FALSE
    /\ fin' = (fin \/ state_ = "kDisconnecting")

\* Wrong: a file that is still to be sent is not thought of.
AllOut_BufferOnly(n) == n = Len(outBuffer_)

\* After n bytes of outBuffer_ nothing is left to write.
AllOut(n) == n = Len(outBuffer_) /\ left = 0

HandleWriteBuffer ==
    /\ alive /\ writing
    /\ outBuffer_ # <<>>
    /\ \E n \in 1..Len(outBuffer_) :
        /\ wire' = wire \o SubSeq(outBuffer_, 1, n)
        /\ outBuffer_' = SubSeq(outBuffer_, n + 1, Len(outBuffer_))
        /\ IF AllOut(n) THEN Drained ELSE UNCHANGED <<writing, fin>>
    /\ UNCHANGED <<requests, next, alive, state_, fileVars, overlapped>>

\* Wrong: the file is not closed once it is sent.
CloseFile_Forgotten == UNCHANGED open

\* ::close(sendFd_)
CloseFile == open' = open \ {sendFd_}

\* sendfile() sends some of the file; of descriptor -1 it sends nothing.
HandleWriteFile ==
    /\ alive /\ writing
    /\ outBuffer_ = <<>> /\ left # 0 /\ sendFd_ # None
    /\ \E n \in 1..left :
        /\ wire' = wire \o [k \in 1..n |-> <<sendFd_, "file">>]
        /\ left' = left - n
        /\ IF n = left THEN Drained /\ CloseFile ELSE UNCHANGED <<writing, fin, open>>
    /\ UNCHANGED <<requests, next, alive, state_, outBuffer_, sendFd_, overlapped>>

\* handleClose(), and the destructor: neither closes sendFd_.
Close ==
    /\ alive /\ state_ # "kDisconnected"
    /\ state_' = "kDisconnected"
    /\ writing' = FALSE
    /\ UNCHANGED <<requests, next, alive, outBuffer_, fin, wire, fileVars, overlapped>>

HandleWrite == HandleWriteBuffer \/ HandleWriteFile

Next == OnRequest \/ HandleWrite \/ Close

Spec == Init /\ [][Next]_vars

\* The client reads what it asked for.
FairSpec == Spec /\ WF_vars(HandleWrite)

-----------------------------------------------------------------------------
(* What the requests call for: a header and the file, up to the first that *)
(* closes the connection.                                                  *)

Response(i) ==
    LET file == Resolve(requests[i].path)
        size == IF file = <<>> THEN 0 ELSE Stat[file[1]].size
    IN  Header(i) \o [k \in 1..size |-> <<i, "file">>]

\* Request i is answered: none before it closes the connection.
Answered(i) == \A j \in 1..(i - 1) : ~requests[j].close

Responses(upTo) ==
    FlattenSeq([i \in 1..upTo |-> IF Answered(i) THEN Response(i) ELSE <<>>])

-----------------------------------------------------------------------------
(* Properties.                                                             *)

(***************************************************************************)
(* Each header is followed by its file, whole, before the next header, and *)
(* the FIN, which alone ends a body that comes without a Content-Length,   *)
(* by nothing less than all of it.  The exceptions are a request that      *)
(* comes while a file is being sent, for handleWrite() prefers outBuffer_  *)
(* to the rest of the file and setSendFd() replaces the file, and one that *)
(* comes after the last response was begun, for its file is sent though    *)
(* its header is not.                                                      *)
(***************************************************************************)
ResponsesFramed ==
    ~overlapped =>
        /\ IsPrefix(wire, Responses(next - 1))
        /\ fin => wire = Responses(next - 1)

(***************************************************************************)
(* A file is closed once it is sent, so that the descriptors of a long     *)
(* connection do not pile up.  What stays open is the file being sent, an  *)
(* empty file, which handleWrite() never sees, one named after the         *)
(* connection was shut down, and one replaced by an overlapping request.   *)
(***************************************************************************)
FilesClosed ==
    ~overlapped /\ alive /\ state_ # "kDisconnected" =>
        \A i \in open :
            \/ i = sendFd_ /\ left # 0 /\ writing
            \/ Len(Response(i)) = 1
            \/ ~Answered(i)

(***************************************************************************)
(* A response that was begun is finished, unless the connection is closed, *)
(* the server died, a request overlapped, or openat() failed on a file     *)
(* that fstatat() had found: its bytes are promised and never sent.        *)
(***************************************************************************)
ResponsesCompleted ==
    []<>(\/ IsPrefix(Responses(next - 1), wire)
         \/ ~alive \/ state_ = "kDisconnected" \/ overlapped
         \/ \E i \in 1..(next - 1) : \E p \in Range(Resolve(requests[i].path)) :
                ~Stat[p].opens)
=============================================================================

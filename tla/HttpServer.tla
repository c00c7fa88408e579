----------------------------- MODULE HttpServer -----------------------------
(***************************************************************************)
(* yvent::HttpServer on one connection, with its HttpContext: the bytes a  *)
(* client sends arrive in chunks that need not end where lines or requests *)
(* do; every chunk makes one call of onMessage().                          *)
(*                                                                         *)
(* The unit of data is a complete line.  The bytes of an unfinished line   *)
(* stay in the buffer without effect, as findCRLF() finds no end of line:  *)
(* a chunk that completes no line is a call of onMessage() with nothing    *)
(* new to parse.  Queries and headers other than Connection have no        *)
(* influence on control and are left out.                                  *)
(***************************************************************************)
EXTENDS HttpRequest

CONSTANTS
    Inputs,     \* what a client may send: lines, and the target of its request lines
    MaxPath     \* bound: chunks arrive while path_ is at most this long

(***************************************************************************)
(* The lines that parsing tells apart: a request line of either version;   *)
(* one with a known method but no second space ("noTarget") or a bad       *)
(* version ("noVersion"); the Connection header with the values close and  *)
(* Keep-Alive; another header; and a line without a colon or a method,     *)
(* such as the empty one.                                                  *)
(***************************************************************************)
Line == {"get10", "get11", "noTarget", "noVersion", "close", "keepAlive",
         "header", "blank"}

ASSUME InputsAssumption ==
    /\ MaxPath \in Nat
    /\ \A in \in Inputs : in.lines \in Seq(Line) /\ in.target \in Seq(Nat \ {Space})

HasColon(l) == l \in {"close", "keepAlive", "header"}
HasMethod(l) == l \in {"get10", "get11", "noTarget", "noVersion"}
WellFormed(l) == l \in {"get10", "get11"}

\* parseRequestLine() calls setMethod() on what precedes the first space.
HasSpace(l) == l # "blank"

VARIABLES
    pipelined,  \* the client does not wait for responses
    lines,      \* what the client sends, in full
    target,     \* the target of its request lines
    sent,       \* how many of the lines have arrived
    buffer,     \* complete lines in inBuffer_
    state_,     \* HttpContext::state_
    method_,    \* request_.method_ is set
    path_,      \* request_.path_
    version_,   \* request_.version_
    header_,    \* request_.getHeader("Connection")
    pc,         \* "idle", "parse" (in parseRequest()), "done" (parseDone())
    connected,  \* the connection is kConnected: send() still sends
    responses,  \* history: the responses sent
    reused      \* history: setMethod() was called with method_ set

requestVars == <<state_, method_, path_, version_, header_>>
clientVars == <<pipelined, lines, target>>
vars == <<clientVars, sent, buffer, requestVars, pc, connected, responses, reused>>

Init ==
    /\ pipelined \in BOOLEAN
    /\ \E in \in Inputs : lines = in.lines /\ target = in.target
    /\ sent = 0
    /\ buffer = <<>>
    /\ state_ = "RequestLine"
    /\ method_ = FALSE
    /\ path_ = <<>>
    /\ version_ = "Unknown"
    /\ header_ = "none"
    /\ pc = "idle"
    /\ connected = TRUE
    /\ responses = <<>>
    /\ reused = FALSE

-----------------------------------------------------------------------------
\* Of the lines from i on, the first that has no colon; the last if all have.
FirstWithoutColon(i) ==
    IF \E j \in i..Len(lines) : ~HasColon(lines[j])
    THEN CHOOSE j \in i..Len(lines) :
            ~HasColon(lines[j]) /\ \A k \in i..(j - 1) : HasColon(lines[k])
    ELSE Len(lines)

\* A client that waits for its response sends no line past the current request.
MayArrive(upTo) ==
    \/ pipelined
    \/ upTo <= FirstWithoutColon(IF state_ = "Headers" THEN sent + 1 ELSE sent + 2)

\* A chunk that completes some lines, or none, arrives: onMessage() begins.  A
\* rejected request line adds to path_ on every call, hence MaxPath.
Receive(upTo) ==
    /\ pc = "idle"
    /\ Len(path_) <= MaxPath
    /\ MayArrive(upTo)
    /\ buffer' = buffer \o SubSeq(lines, sent + 1, upTo)
    /\ sent' = upTo
    /\ pc' = "parse"
    /\ UNCHANGED <<clientVars, requestVars, connected, responses, reused>>

\* conn->send() drops the response unless the connection is kConnected.
Respond(r) == responses' = IF connected THEN Append(responses, r) ELSE responses

\* setPath() adds to path_.
AddPath == path_' = path_ \o setPath(PathOf(target), BehindPath(target))

\* parseRequestLine() succeeds.
ParseRequestLine ==
    /\ pc = "parse" /\ state_ = "RequestLine" /\ buffer # <<>>
    /\ WellFormed(Head(buffer))
    /\ reused' = (reused \/ method_)
    /\ method_' = TRUE
    /\ AddPath
    /\ version_' = Head(buffer)
    /\ state_' = "Headers"
    /\ buffer' = Tail(buffer)
    /\ UNCHANGED <<clientVars, sent, header_, pc, connected, responses>>

\* Wrong: the connection stays open after a bad request.
AfterBadRequest_StaysOpen == UNCHANGED connected

\* conn->shutdown() after the 400.
AfterBadRequest == connected' = FALSE

\* parseRequestLine() fails: the line stays in the buffer, and onMessage()
\* answers 400 and shuts the connection down.
BadRequest ==
    /\ pc = "parse" /\ state_ = "RequestLine" /\ buffer # <<>>
    /\ ~WellFormed(Head(buffer))
    /\ reused' = (reused \/ (method_ /\ HasSpace(Head(buffer))))
    /\ method_' = IF HasSpace(Head(buffer)) THEN HasMethod(Head(buffer)) ELSE method_
    /\ IF Head(buffer) = "noVersion" THEN AddPath ELSE UNCHANGED path_
    /\ Respond("400")
    /\ AfterBadRequest
    /\ pc' = "idle"
    /\ UNCHANGED <<clientVars, sent, buffer, state_, version_, header_>>

\* addHeader(): the last header of a name counts.
ParseHeader ==
    /\ pc = "parse" /\ state_ = "Headers" /\ buffer # <<>>
    /\ HasColon(Head(buffer))
    /\ header_' = IF Head(buffer) = "header" THEN header_ ELSE Head(buffer)
    /\ buffer' = Tail(buffer)
    /\ UNCHANGED <<clientVars, sent, state_, method_, path_, version_, pc,
                   connected, responses, reused>>

\* Any line without a colon ends the headers.
ParseHeadersEnd ==
    /\ pc = "parse" /\ state_ = "Headers" /\ buffer # <<>>
    /\ ~HasColon(Head(buffer))
    /\ state_' = "AllDone"
    /\ pc' = "done"
    /\ buffer' = Tail(buffer)
    /\ UNCHANGED <<clientVars, sent, method_, path_, version_, header_, connected,
                   responses, reused>>

\* No complete line is left.
ParseNeedsMore ==
    /\ pc = "parse"
    /\ state_ \in {"RequestLine", "Headers"}
    /\ buffer = <<>>
    /\ pc' = "idle"
    /\ UNCHANGED <<clientVars, sent, buffer, requestVars, connected, responses, reused>>

\* Wrong: HTTP/1.0 requests keep the connection open.
WantsClose_HeaderOnly(version, header) == header = "close"

WantsClose(version, header) ==
    header = "close" \/ (version = "get10" /\ header # "keepAlive")

\* Wrong: the context is not reset after a request.
ResetRequest_Forgotten == UNCHANGED requestVars

\* HttpContext::reset()
ResetRequest ==
    /\ state_' = "RequestLine"
    /\ method_' = FALSE
    /\ path_' = <<>>
    /\ version_' = "Unknown"
    /\ header_' = "none"

\* onRequest(), with a callback that leaves closeConnection_ as it is, and
\* reset(): one request per onMessage(), whatever else the buffer holds.
OnRequest ==
    /\ pc = "done"
    /\ Respond(IF WantsClose(version_, header_) THEN "close" ELSE "keep")
    /\ connected' = (connected /\ ~WantsClose(version_, header_))
    /\ ResetRequest
    /\ pc' = "idle"
    /\ UNCHANGED <<clientVars, sent, buffer, reused>>

OnMessage ==
    \/ ParseRequestLine \/ BadRequest \/ ParseHeader \/ ParseHeadersEnd
    \/ ParseNeedsMore \/ OnRequest

Next ==
    \/ \E upTo \in sent..Len(lines) : Receive(upTo)
    \/ OnMessage

Spec == Init /\ [][Next]_vars

\* The loop thread finishes onMessage(), and the lines the client sends arrive,
\* whatever chunks without a complete line come between them (SF).
FairSpec ==
    /\ Spec
    /\ WF_vars(OnMessage)
    /\ SF_vars(\E upTo \in (sent + 1)..Len(lines) : Receive(upTo))

-----------------------------------------------------------------------------
(* What the lines mean, regardless of chunks: a request line, headers, and *)
(* a line without a colon, again and again, up to the first request that   *)
(* closes the connection or the first bad request line.                    *)

LastOf(S) == CHOOSE i \in S : \A j \in S : j <= i

\* The Connection header among lines first..last.
ConnectionHeader(first, last) ==
    LET found == {i \in first..last : lines[i] \in {"close", "keepAlive"}}
    IN  IF found = {} THEN "none" ELSE lines[LastOf(found)]

\* The responses that the lines from i on call for.
AnswersFrom[i \in 1..(Len(lines) + 2)] ==
    IF i > Len(lines) THEN <<>>
    ELSE IF ~WellFormed(lines[i]) THEN <<"400">>
    ELSE IF \A j \in (i + 1)..Len(lines) : HasColon(lines[j]) THEN <<>>
    ELSE LET last == FirstWithoutColon(i + 1)
             header == ConnectionHeader(i + 1, last - 1)
         IN  IF header = "close" \/ (lines[i] = "get10" /\ header # "keepAlive")
             THEN <<"close">>
             ELSE <<"keep">> \o AnswersFrom[last + 1]

ResponsesFrom == AnswersFrom[1]

-----------------------------------------------------------------------------
(* Properties.                                                             *)

(***************************************************************************)
(* The client gets the responses its lines call for, in order and none     *)
(* after the one that closes the connection, however the bytes were cut    *)
(* into chunks (parseRequest(), the reset of the context, shutdown()).     *)
(***************************************************************************)
ResponsesInOrder ==
    /\ Len(responses) <= Len(ResponsesFrom)
    /\ responses = SubSeq(ResponsesFrom, 1, Len(responses))

(***************************************************************************)
(* parseRequest() terminates: it is never entered in the state AllDone,    *)
(* for which its loop has no exit.                                         *)
(***************************************************************************)
ParserTerminates == pc = "parse" => state_ # "AllDone"

(***************************************************************************)
(* A client that waits for each response before its next request gets all  *)
(* of them.  (A pipelined request behind another one in the buffer waits   *)
(* for the next chunk, which may never come.)                              *)
(***************************************************************************)
AllAnswered == ~pipelined => <>(responses = ResponsesFrom)

(***************************************************************************)
(* The request handed to onRequest() is the one that was sent: its path is *)
(* the decoded target, without a rest of earlier requests or of what is    *)
(* behind it in the line, and its method was set once, as the assertion of *)
(* HttpRequest::setMethod() demands.  This holds until a request line is   *)
(* rejected: after the 400 the line stays in the buffer and the request    *)
(* half filled, so that the next chunk sets both again.  Of a path with a  *)
(* broken escape only the part in front of that is said to be kept.        *)
(***************************************************************************)
RequestExact ==
    LET text == PathOf(target)
    IN  connected =>
            /\ ~reused
            /\ pc = "done" =>
                /\ \A n \in 1..Len(text) : WellEscaped(text, n) => Decodes(path_, text, n)
                /\ WellEscaped(text, Len(text)) => Len(path_) = Place(text, Len(text) + 1) - 1
=============================================================================

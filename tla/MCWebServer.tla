----------------------------- MODULE MCWebServer -----------------------------
EXTENDS WebServer

\* bound: requests
MaxRequests == 3

File(size) ==
    [empty |-> FALSE, exists |-> TRUE, dir |-> FALSE, size |-> size, opens |-> TRUE,
     suffix |-> TRUE]

MCStat == [
    file     |-> File(2),
    empty    |-> File(0),
    locked   |-> [File(1) EXCEPT !.opens = FALSE],
    plain    |-> [File(1) EXCEPT !.suffix = FALSE],
    missing  |-> [File(0) EXCEPT !.exists = FALSE],
    none     |-> [File(0) EXCEPT !.exists = FALSE, !.empty = TRUE, !.suffix = FALSE],
    dir      |-> [File(3) EXCEPT !.dir = TRUE, !.suffix = FALSE],
    bare     |-> [File(3) EXCEPT !.dir = TRUE, !.suffix = FALSE]]

\* dir has the second index, bare has none.
MCIndexes == [p \in DOMAIN MCStat |->
    CASE p = "dir" -> <<"missing", "file">> [] p = "bare" -> <<"missing", "missing">>
      [] OTHER -> <<>>]

MCRequests == BoundedSeq([path : DOMAIN MCStat, close : BOOLEAN], MaxRequests)
=============================================================================

---------------------------- MODULE MCHttpServer ----------------------------
EXTENDS HttpServer, SequencesExt

\* bounds: lines, and characters of a target
MaxLines == 4
MaxTarget == 5

\* '/', '%', '5', 'B', 'b', 'g' and '?'
Characters == {47, 37, 53, 66, 98, 103, 63}

\* Any lines, and any two behind a request of any two lines.
MCLines ==
    BoundedSeq(Line, MaxLines) \cup
    {<<l[1], l[2], "blank", l[3], l[4]>> : l \in [1..4 -> Line]}

\* These with the target "/%5B/g", and one request with any target.
MCInputs ==
    {[lines |-> l, target |-> <<47, 37, 53, 66, 47, 103>>] : l \in MCLines} \cup
    {[lines |-> <<"get11", "blank">>, target |-> t] :
        t \in BoundedSeq(Characters, MaxTarget)}
=============================================================================

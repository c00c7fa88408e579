---------------------------- MODULE HttpRequest ----------------------------
(***************************************************************************)
(* HttpRequest::setPath(): the percent-decoding of a path, over characters *)
(* given by their codes.  HttpServer uses it.                              *)
(***************************************************************************)
EXTENDS Integers, Sequences, FiniteSets

Percent == 37
Space == 32
Question == 63

\* c | 0x20
ToLower(c) == IF (c \div 32) % 2 = 0 THEN c + 32 ELSE c

IsDigit(c) == c \in 48..57
IsHex(c) == IsDigit(c) \/ ToLower(c) \in 97..102
HexValue(c) == IF IsDigit(c) THEN c - 48 ELSE ToLower(c) - 97 + 10

\* Wrong: the decoder stays in kPercent after an escape.
AfterEscape_Stays == TRUE

\* Whether the decoder is in kPercent after the second digit of an escape.
AfterEscape == FALSE

(***************************************************************************)
(* What setPath(start, end) appends to path_.  text is [start, end), and   *)
(* behind is *end, which is read as the second digit of an escape cut off  *)
(* by the end of the path.  pct is state == kPercent, which a character    *)
(* that is no hex digit does not leave: it is dropped.                     *)
(***************************************************************************)
setPath(text, behind) ==
    LET at(i) == IF i <= Len(text) THEN text[i] ELSE behind
        from[x \in (1..(Len(text) + 2)) \X BOOLEAN] ==
            LET i == x[1]
                pct == x[2]
            IN  IF i > Len(text) THEN <<>>
                ELSE IF ~pct THEN IF at(i) = Percent THEN from[<<i + 1, TRUE>>]
                                  ELSE <<at(i)>> \o from[<<i + 1, FALSE>>]
                ELSE IF ~IsHex(at(i)) THEN from[<<i + 1, TRUE>>]
                ELSE IF ~IsHex(at(i + 1)) THEN from[<<i + 2, TRUE>>]
                ELSE <<16 * HexValue(at(i)) + HexValue(at(i + 1))>>
                         \o from[<<i + 2, AfterEscape>>]
    IN  from[<<1, FALSE>>]

\* The part of a request target in front of the query, and what follows it in
\* the request line.
Questions(target) == {i \in 1..Len(target) : target[i] = Question}
PathOf(target) ==
    SubSeq(target, 1, IF Questions(target) = {} THEN Len(target)
                      ELSE (CHOOSE i \in Questions(target) :
                               \A j \in Questions(target) : i <= j) - 1)
BehindPath(target) == IF Questions(target) = {} THEN Space ELSE Question

-----------------------------------------------------------------------------
(* What a path stands for: a character for itself, %XY for the character   *)
(* with that code.                                                         *)

\* The first n characters of text hold no broken escape, nor a part of one.
WellEscaped(text, n) ==
    \A i \in 1..n : text[i] = Percent =>
        i + 2 <= n /\ IsHex(text[i + 1]) /\ IsHex(text[i + 2])

\* Character i is one of the two behind a percent sign.
Escaped(text, i) == \E k \in {1, 2} : i > k /\ text[i - k] = Percent

\* Where character i goes: each escape in front of it makes one of three.
Place(text, i) == i - 2 * Cardinality({j \in 1..(i - 1) : text[j] = Percent})

\* What goes there.
Decoded(text, i) ==
    IF text[i] = Percent THEN 16 * HexValue(text[i + 1]) + HexValue(text[i + 2])
    ELSE text[i]

\* path begins with what the first n characters of text stand for.
Decodes(path, text, n) ==
    /\ Len(path) >= Place(text, n + 1) - 1
    /\ \A i \in 1..n : ~Escaped(text, i) => path[Place(text, i)] = Decoded(text, i)
=============================================================================

------------------------------ MODULE ByteQueue ------------------------------
(***************************************************************************)
(* What a Buffer promises: a queue of bytes that grows at its end, shrinks *)
(* at its front, and takes a header in front.                              *)
(***************************************************************************)
EXTENDS Naturals, Sequences

CONSTANT Chunks  \* the byte strings that are added

VARIABLE bytes  \* the readable bytes

BQInit == bytes = <<>>

Appended == \E data \in Chunks : bytes' = bytes \o data

Prepended == \E data \in Chunks : bytes' = data \o bytes

Retrieved == \E n \in 0..Len(bytes) : bytes' = SubSeq(bytes, n + 1, Len(bytes))

BQNext == Appended \/ Prepended \/ Retrieved

BQSpec == BQInit /\ [][BQNext]_bytes
=============================================================================

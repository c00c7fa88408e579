------------------------------ MODULE MCBuffer ------------------------------
EXTENDS Buffer

CONSTANT MaxChunk

\* All byte strings of up to MaxChunk bytes.
AllChunks == UNION {[1..n -> Byte] : n \in 0..MaxChunk}
=============================================================================

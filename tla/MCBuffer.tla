------------------------------ MODULE MCBuffer ------------------------------
(* Buffer with two byte values and up to three bytes at a time.             *)
EXTENDS Buffer

MCByte == {0, 1}
MCData == UNION {[1 .. n -> MCByte] : n \in 0 .. 3}
=============================================================================

----------------------------- MODULE MCShmQueue -----------------------------
(* ShmQueue for TLC: a producer and a consumer on a ring of ten bytes.      *)
(* Blocks take 4, 6 and 8 bytes, so that 4 + 6 fills the ring exactly, each *)
(* piece of a block gets split at the right end, and the longest message    *)
(* does not fit the consumer's buffer.                                      *)
EXTENDS ShmQueue, TLC

CONSTANTS writer, reader, small, medium, large

MCSize == (small :> 1) @@ (medium :> 3) @@ (large :> 5)
=============================================================================

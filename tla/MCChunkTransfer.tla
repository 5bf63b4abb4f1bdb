--------------------------- MODULE MCChunkTransfer ---------------------------
(***************************************************************************)
(* Small instances of ChunkTransfer for TLC.                               *)
(***************************************************************************)
EXTENDS ChunkTransfer

\* Two versions of two chunks each.
EqualSizes == <<2, 2>>

\* Three versions of different sizes.
MixedSizes == <<2, 1, 3>>
=============================================================================

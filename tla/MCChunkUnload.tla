--------------------------- MODULE MCChunkUnload ---------------------------
(* One position, small numbers of everything.                              *)
EXTENDS ChunkUnloadProps
=============================================================================

-------------------------- MODULE MCChunkDelivery --------------------------
(* One player is enough: what is sent to several is sent to each. *)
EXTENDS ChunkDeliveryProps, TLC
=============================================================================

---------------------------- MODULE MCPlayerBatch ----------------------------
(* A small pool: batches shorter than, as long as and longer than the pool. *)
EXTENDS PlayerBatch
=============================================================================

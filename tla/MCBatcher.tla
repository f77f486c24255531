----------------------------- MODULE MCBatcher -----------------------------
(* Batcher on small sets for TLC: three loaders, so that one can lead while  *)
(* another waits for it and a third arrives.                                *)
EXTENDS Batcher
=============================================================================

---------------------------- MODULE MCChainLock ----------------------------
(* Three processes that append, wait, steal and unlock. *)
EXTENDS ChainLock
============================================================================

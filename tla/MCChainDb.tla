----------------------------- MODULE MCChainDb -----------------------------
(* The instance of ChainDb for TLC. *)
EXTENDS ChainDb, MCBlockImport
============================================================================
